---- MODULE Spec2Model ----
(***************************************************************************)
(* restaurant-menu-summarizer: the date-scoped SQLite cache                *)
(* (src/services/cache.service.ts) and the request orchestrator            *)
(* (services/menu.service.ts, MenuService.processUrl).                     *)
(*                                                                         *)
(* The specifications:                                                     *)
(*   SpecCache  one caller awaiting each cache call in turn (the unit      *)
(*              tests' use of CacheService);                               *)
(*   Spec       HTTP requests running processUrl, interleaved at their     *)
(*              awaits with each other, the midnight cleanup timer and     *)
(*              shutdown;                                                  *)
(*   SpecExtract  one LLMService.extractMenu call, turn by turn of the     *)
(*              reasoning service;                                         *)
(*   SpecFilter  one application of applyPreferencesFilter and             *)
(*              calculateRecommendedMeal;                                  *)
(*   SpecName   one LLMService.extractRestaurantName call;                 *)
(*   SpecClassify  one evaluation of hasDailyMenuIndicators;               *)
(*   SpecPrice  one LLMService.normalizePrice call;                        *)
(*   SpecServer  startServer, its midnight timers and the shutdown;        *)
(*   SpecRace   two processUrl calls for one page and date at once;        *)
(*   SpecHeal   the same two calls with rows that can be corrupted, the    *)
(*              lookup's SELECT and DELETE being separate steps;           *)
(*   SpecAuth   one request passing through requireApiKey;                 *)
(*   SpecRetry  one retry(fn, options) call, attempt by attempt.           *)
(***************************************************************************)
EXTENDS Integers, Sequences, FiniteSets, TLC

\* ------------------------------------------------------------------ bounds

\* Calendar days the clock can show: day 1 .. day MaxDay.
MaxDay == 2
\* Items in a final answer of the reasoning service and in a list given to
\* the preference filter: at most MaxItems.
MaxItems == 2
\* AUTOINCREMENT row ids handed out: at most MaxId rows are ever inserted.
MaxId == 2
\* The raw price texts tried: every text of at most MaxChars characters.
MaxChars == 3
\* The retry counts tried: 0 .. MaxRetries, and the default.
MaxRetries == 2

\* ------------------------------------------------------------- JS values

Num(n) == [t |-> "number", v |-> n]
Str(s) == [t |-> "string", v |-> s]
Arr(s) == [t |-> "array", v |-> s]
JsNull == [t |-> "null"]
JsUndefined == [t |-> "undefined"]

\* -------------------------------------------------------------- dates

\* The calendar date (year, month, day of month) of day i; the days straddle
\* a month end: 2025-09-30, 2025-10-01, 2025-10-02, ...
DateOf(i) == IF i <= 1 THEN <<2025, 9, 29 + i>> ELSE <<2025, 10, i - 1>>

\* String(n).padStart(2, '0') as a sequence of digits.
PadStart2(n) == IF n < 10 THEN <<0, n>> ELSE <<n \div 10, n % 10>>

\* `${year}` for a four digit year.
YearDigits(y) == <<y \div 1000, (y \div 100) % 10, (y \div 10) % 10, y % 10>>

\* The YYYY-MM-DD string of a calendar date: a sequence of characters, a
\* digit as its value and '-' as -1 ('-' sorts before every digit).
FormatDate(ymd) == YearDigits(ymd[1]) \o <<-1>> \o PadStart2(ymd[2]) \o <<-1>> \o PadStart2(ymd[3])

\* getTodayDate(): the local calendar date of the clock, formatted.
getTodayDate(day) == FormatDate(DateOf(day))

\* SQLite's comparison of two TEXT values (BINARY collation): a < b.
RECURSIVE TextLess(_, _)
TextLess(a, b) ==
    IF b = <<>> THEN FALSE
    ELSE IF a = <<>> THEN TRUE
    ELSE IF Head(a) # Head(b) THEN Head(a) < Head(b)
    ELSE TextLess(Tail(a), Tail(b))

Days == 1..MaxDay
\* The date strings a validated request or a test can carry.
DateStrings == {FormatDate(DateOf(i)) : i \in Days}
\* The day a date string names.
DayOfString(s) == CHOOSE i \in Days : FormatDate(DateOf(i)) = s

\* A URL: its protocol and its hostname, written in pieces: a dot is a piece
\* of its own and so is every "www" that a dot follows, so that "www."
\* occurs in the hostname exactly where "www" and "." are adjacent pieces.
MkUrl(host) == [protocol |-> "https", host |-> host]
NoUrl == [protocol |-> "", host |-> <<>>]
\* https://restaurace.cz and https://www.hospoda.cz
Urls == {MkUrl(<<"restaurace", ".", "cz">>), MkUrl(<<"www", ".", "hospoda", ".", "cz">>)}
\* The URL the requests of the orchestrator ask for.
RequestUrls == {MkUrl(<<"www", ".", "hospoda", ".", "cz">>)}

\* ------------------------------------------------------------ menu items

ItemKeys == {"name", "price", "allergens", "weight", "category"}

MkItem(n, p, a, c) ==
    [name |-> Str(n), price |-> p, allergens |-> a, weight |-> JsUndefined, category |-> c]

\* The RestaurantMenu object processUrl builds (and the tests save).
MkMenu(name, date, day, items, status, rec) ==
    [restaurant_name |-> name, date |-> date, day_of_week |-> day,
     menu_items |-> items, extraction_status |-> status, recommendedMeal |-> rec]

\* ------------------------------------------------------------------ JSON

\* JSON.stringify of an item: a property whose value is undefined is left
\* out of the document.
StringifyItem(it) == [k \in {k \in ItemKeys : it[k] # JsUndefined} |-> it[k]]

\* Reading an item back: a property the document lacks reads as undefined.
ParseItem(doc) == [k \in ItemKeys |-> IF k \in DOMAIN doc THEN doc[k] ELSE JsUndefined]

\* JSON.stringify(data): the TEXT stored in the data column.
JSONStringify(menu) ==
    [valid |-> TRUE,
     doc |-> [menu EXCEPT !.menu_items = [i \in DOMAIN menu.menu_items |-> StringifyItem(menu.menu_items[i])]]]

\* A data column that is not JSON ("invalid json {broken").
CorruptText == [valid |-> FALSE, doc |-> [text |-> "invalid json {broken"]]

\* JSON.parse(row.data) throws a SyntaxError on text that is not JSON.
JSONParseThrows(text) == ~text.valid

JSONParse(text) ==
    [text.doc EXCEPT !.menu_items = [i \in DOMAIN text.doc.menu_items |-> ParseItem(text.doc.menu_items[i])]]

\* ------------------------------------------------------ table menu_cache

\* A row of menu_cache: [id, url, date, data]; the table is a set of rows.

SelectMenuAnyDate(st, u, d) == {r \in st : r.url = u}

\* SELECT data, id FROM menu_cache WHERE url = ? AND date = ?
SelectMenu(st, u, d) == {r \in st : r.url = u /\ r.date = d}

UniqueConflictOnUrl(st, u, d) == {r \in st : r.url = u}

\* The rows a new row for (u, d) conflicts with under UNIQUE(url, date).
UniqueConflict(st, u, d) == {r \in st : r.url = u /\ r.date = d}

InsertOrIgnore(st, id, u, d, text) ==
    IF UniqueConflict(st, u, d) # {} THEN st
    ELSE st \cup {[id |-> id, url |-> u, date |-> d, data |-> text]}

InsertDuplicate(st, id, u, d, text) ==
    st \cup {[id |-> id, url |-> u, date |-> d, data |-> text]}

\* INSERT OR REPLACE INTO menu_cache (url, date, data, created_at): the
\* conflicting row is deleted and a row with a fresh AUTOINCREMENT id inserted.
InsertOrReplace(st, id, u, d, text) ==
    (st \ UniqueConflict(st, u, d)) \cup {[id |-> id, url |-> u, date |-> d, data |-> text]}

\* DELETE FROM menu_cache WHERE id = ?
DeleteById(st, id) == {r \in st : r.id # id}

ExpiredRowsInclusive(st, todayDate) == {r \in st : ~TextLess(todayDate, r.date)}

\* The rows DELETE FROM menu_cache WHERE date < ? removes.
ExpiredRows(st, todayDate) == {r \in st : TextLess(r.date, todayDate)}

\* ------------------------------------------------------------ CacheService

NotInitializedMessage == "Cache not initialized. Call init() first."

\* The catch blocks: every error thrown inside the try, getDb()'s
\* NotInitializedError included, is rethrown as the method's own error with
\* the original message as its reason.
WrapError(kind, reason) == [kind |-> kind, reason |-> reason]
NoError == [kind |-> "none", reason |-> ""]

Outcome(status, value, error, st, id) ==
    [status |-> status, value |-> value, error |-> error, store |-> st, nextId |-> id]

HealByKey(st, row) == {r \in st : ~(r.url = row.url /\ r.date = row.date)}

HealNothing(st, row) == st

\* What getCachedMenu does with the row it selected whose data does not parse.
HealCorrupted(st, row) == DeleteById(st, row.id)

\* getCachedMenu(url, date), awaited to its end. value is {} for null and
\* {menu} for a hit.
getCachedMenu(db, st, id, u, d) ==
    IF ~db THEN Outcome("error", {}, WrapError("ReadFailed", NotInitializedMessage), st, id)
    ELSE LET rows == SelectMenu(st, u, d) IN
         IF rows = {} THEN Outcome("ok", {}, NoError, st, id)
         ELSE LET row == CHOOSE r \in rows : TRUE IN
              IF JSONParseThrows(row.data)
              THEN Outcome("ok", {}, NoError, HealCorrupted(st, row), id)
              ELSE Outcome("ok", {JSONParse(row.data)}, NoError, st, id)

\* saveMenuToCache(url, date, data), awaited to its end.
saveMenuToCache(db, st, id, u, d, data) ==
    IF ~db THEN Outcome("error", {}, WrapError("WriteFailed", NotInitializedMessage), st, id)
    ELSE Outcome("ok", {}, NoError, InsertOrReplace(st, id, u, d, JSONStringify(data)), id + 1)

\* invalidateOldRecords() on clock day `day`, awaited to its end.
invalidateOldRecords(db, st, id, day) ==
    IF ~db THEN Outcome("error", {}, WrapError("InvalidateFailed", NotInitializedMessage), st, id)
    ELSE Outcome("ok", {}, NoError, st \ ExpiredRows(st, getTodayDate(day)), id)

\* ------------------------------------------- MenuService: pure functions

\* Number(allergen) of an allergen code held as a string; -1 stands for NaN,
\* which no code of a preference list equals.
ToNumber(str) ==
    CASE str = "1" -> 1 [] str = "3" -> 3 [] str = "7" -> 7 [] str = "07" -> 7 [] OTHER -> -1

\* Request preferences: undefined, or an object with optional price and allergens.
NoPreferences == [given |-> FALSE, price |-> JsUndefined, allergens |-> JsUndefined]
MkPreferences(price, allergens) == [given |-> TRUE, price |-> price, allergens |-> allergens]

\* item.price > preferences.price, for a price that is not undefined: null
\* converts to 0.
PriceAbove(price, ceiling) ==
    IF price.t = "number" THEN price.v > ceiling.v
    ELSE IF price.t = "null" THEN 0 > ceiling.v
    ELSE FALSE

KeepsItemUnknownUnsafe(item, preferences) ==
    /\ (preferences.price # JsUndefined) =>
          ~(item.price = JsUndefined \/ PriceAbove(item.price, preferences.price))
    /\ (preferences.allergens # JsUndefined /\ Len(preferences.allergens.v) > 0) =>
          /\ item.allergens.t = "array"
          /\ \A i \in DOMAIN item.allergens.v :
                \A j \in DOMAIN preferences.allergens.v :
                    preferences.allergens.v[j] # ToNumber(item.allergens.v[i])

\* The predicate of applyPreferencesFilter's items.filter.
KeepsItem(item, preferences) ==
    /\ (preferences.price # JsUndefined) =>
          ~(item.price = JsUndefined \/ PriceAbove(item.price, preferences.price))
    /\ (preferences.allergens # JsUndefined /\ Len(preferences.allergens.v) > 0) =>
          ~(/\ item.allergens.t = "array"
            /\ Len(item.allergens.v) > 0
            /\ \E i \in DOMAIN item.allergens.v :
                  \E j \in DOMAIN preferences.allergens.v :
                      preferences.allergens.v[j] = ToNumber(item.allergens.v[i]))

RECURSIVE FilterSeqReversed(_, _)
FilterSeqReversed(items, preferences) ==
    IF items = <<>> THEN <<>>
    ELSE FilterSeqReversed(Tail(items), preferences)
         \o (IF KeepsItem(Head(items), preferences) THEN <<Head(items)>> ELSE <<>>)

RECURSIVE FilterSeq(_, _)
FilterSeq(items, preferences) ==
    IF items = <<>> THEN <<>>
    ELSE (IF KeepsItem(Head(items), preferences) THEN <<Head(items)>> ELSE <<>>)
         \o FilterSeq(Tail(items), preferences)

applyPreferencesFilter(items, preferences) == FilterSeq(items, preferences)

RecommendLast(filteredItems) ==
    IF Len(filteredItems) = 0 THEN JsNull ELSE filteredItems[Len(filteredItems)].name

calculateRecommendedMeal(filteredItems) ==
    IF Len(filteredItems) = 0 THEN JsNull ELSE filteredItems[1].name

\* ---- hasDailyMenuIndicators
\* A page text is a sequence of tokens separated by single spaces, lower-cased:
\* [w, n, v], the word or phrase, its length in characters and, for a price
\* token ("120 kc", "45,-"), the number its two or three digits spell.
Word(w, n) == [w |-> w, n |-> n, v |-> 0]
PriceToken(v, n) == [w |-> "price", n |-> n, v |-> v]

WindowRadius == 400
NavigationCutoff == 3
MinDailyPrice == 60
MaxDailyPrice == 200

\* text.toLowerCase(): the capitalised spellings the texts below use.
LowerWord(w) ==
    CASE w = "Denni menu" -> "denni menu" [] w = "POLEDNI MENU" -> "poledni menu"
      [] w = "Pondeli" -> "pondeli" [] w = "Uvod" -> "uvod" [] OTHER -> w
ToLowerCaseText(text) == [i \in DOMAIN text |-> [text[i] EXCEPT !.w = LowerWord(@)]]

dailyKeywords == <<"poledni menu", "denni menu", "menu dne", "obedove menu", "tydenni menu">>
navKeywords == {"uvod", "kontakty", "o nas", "rezervace", "ubytovani", "galerie", "akce", "reference"}
weekdays == {"pondeli", "utery", "streda", "ctvrtek", "patek", "sobota", "nedele"}
soupKeywords == {"polevka", "vyvar"}
mainDishKeywords == {"rizek", "svickova", "panenka", "gulas", "kure"}

RECURSIVE TokenStart(_, _)
\* The character offset at which token i starts.
TokenStart(text, i) == IF i = 1 THEN 0 ELSE TokenStart(text, i - 1) + text[i - 1].n + 1

TextLength(text) == IF text = <<>> THEN 0 ELSE TokenStart(text, Len(text)) + text[Len(text)].n

\* lowerText.indexOf(keyword), -1 when the keyword does not occur.
IndexOf(text, keyword) ==
    LET hits == {i \in DOMAIN text : text[i].w = keyword}
    IN  IF hits = {} THEN -1
        ELSE TokenStart(text, CHOOSE i \in hits : \A j \in hits : i <= j)

RECURSIVE KeywordPosition(_, _)
\* The position of the first keyword of the list, from index k on, that occurs.
KeywordPosition(text, k) ==
    IF k > Len(dailyKeywords) THEN -1
    ELSE IF IndexOf(text, dailyKeywords[k]) # -1 THEN IndexOf(text, dailyKeywords[k])
    ELSE KeywordPosition(text, k + 1)

Max2(a, b) == IF a > b THEN a ELSE b
Min2(a, b) == IF a < b THEN a ELSE b

\* The tokens lying whole inside lowerText.substring(from, to).
ContextTokens(text, from, to) ==
    {i \in DOMAIN text : TokenStart(text, i) >= from /\ TokenStart(text, i) + text[i].n <= to}

ContextIncludes(text, ctx, words) == \E i \in ctx : text[i].w \in words

isMostlyNavigationAnywhere(text, ctx) ==
    Cardinality({k \in navKeywords : ContextIncludes(text, DOMAIN text, {k})}) >= NavigationCutoff

isMostlyNavigation(text, ctx) ==
    Cardinality({k \in navKeywords : ContextIncludes(text, ctx, {k})}) >= NavigationCutoff

hasStrongDailySignal(text, ctx) ==
    LET prices == {i \in ctx : text[i].w = "price"}
        valid == {i \in prices : text[i].v >= MinDailyPrice /\ text[i].v <= MaxDailyPrice}
    IN  \/ ContextIncludes(text, ctx, weekdays)
        \/ ContextIncludes(text, ctx, {"date"})
        \/ Cardinality(prices) >= 2 /\ Cardinality(valid) >= 2
        \/ ContextIncludes(text, ctx, soupKeywords) /\ ContextIncludes(text, ctx, mainDishKeywords)

hasDailyMenuIndicators(text) ==
    LET lowerText == ToLowerCaseText(text)
        keywordPosition == KeywordPosition(lowerText, 1)
        ctx == ContextTokens(lowerText, Max2(0, keywordPosition - WindowRadius),
                             Min2(TextLength(lowerText), keywordPosition + WindowRadius))
    IN  IF keywordPosition = -1 THEN FALSE
        ELSE IF isMostlyNavigation(lowerText, ctx) THEN FALSE
        ELSE hasStrongDailySignal(lowerText, ctx)

\* ------------------------------------------------------------------ state

VARIABLES
    db,         \* CacheService.db is set (init() has opened the database)
    store,      \* the rows of menu_cache in the database file
    nextId,     \* the next AUTOINCREMENT id
    now,        \* the clock's local calendar day
    saved,      \* history: per (url, date), the data of the latest save still valid
    lastCall,   \* SpecCache: the cache call that has just returned
    req,        \* Spec: per request slot, where processUrl stands and its locals
    served,     \* history: the (url, date) answered successfully and not invalidated since
    cleanupDue, \* Spec: the midnight timer has come due and its callback has not run
    ex,         \* SpecExtract: where one extractMenu call stands and its locals
    fl,         \* SpecFilter: one application of the preference filter and the recommender
    fn,         \* SpecName, SpecClassify, SpecPrice: the one call in progress
    srv         \* SpecServer: the server process and its midnight timers

vars == <<db, store, nextId, now, saved, lastCall, req, served, cleanupDue, ex, fl, fn, srv>>

Keys == Urls \X DateStrings

NoCall ==
    [op |-> "none", url |-> NoUrl, date |-> <<>>, data |-> {}, initialized |-> FALSE,
     status |-> "ok", value |-> {}, error |-> NoError, before |-> {}, savedBefore |-> {},
     prev |-> [op |-> "none", url |-> NoUrl, date |-> <<>>, healed |-> FALSE, replaced |-> FALSE]]

\* What the next call remembers of the call before it: healed, a lookup that
\* found a corrupted row under its key; replaced, a save over other valid data;
\* nothing of any other call.
Summary(c) ==
    LET healed == /\ c.op = "get" /\ c.initialized
                  /\ \E r \in c.before : r.url = c.url /\ r.date = c.date /\ JSONParseThrows(r.data)
        replaced == /\ c.op = "save" /\ c.status = "ok"
                    /\ c.savedBefore # {} /\ c.savedBefore # c.data
    IN  IF healed \/ replaced
        THEN [op |-> c.op, url |-> c.url, date |-> c.date, healed |-> healed, replaced |-> replaced]
        ELSE [op |-> "none", url |-> NoUrl, date |-> <<>>, healed |-> FALSE, replaced |-> FALSE]

\* The history of valid saves after an invalidation pass on clock day `day`:
\* every date that lies before that day is forgotten.
SavedAfterInvalidate(sv, day) ==
    [k \in Keys |-> IF DayOfString(k[2]) < day THEN {} ELSE sv[k]]

\* The menus the unit tests save: items carry a name and a price only.
TestMenus(d) ==
    {MkMenu("Restaurace U Fleku", d, "Nedele",
            <<MkItem("Polevka", Num(45), JsUndefined, JsUndefined)>>, "success", JsNull),
     MkMenu("Hospoda Na Rohu", d, "Nedele",
            <<MkItem("Gulas", Num(120), JsUndefined, JsUndefined),
              MkItem("Svickova", JsUndefined, Arr(<<"1", "7">>), JsUndefined)>>, "success", JsNull)}

Requests == {"r1"}

\* A request slot with no request in it.
IdleRequest ==
    [pc |-> "idle", url |-> NoUrl, date |-> <<>>, preferences |-> NoPreferences,
     healRow |-> {}, accepted |-> FALSE, items |-> <<>>, response |-> {}, error |-> NoError,
     events |-> <<>>, persisted |-> {}, inserted |-> {}, deleted |-> {}, servedAtLookup |-> FALSE]

\* extractMenu has not been called.
IdleExtraction ==
    [pc |-> "idle", apiKey |-> FALSE, maxIterations |-> 0, calls |-> 0, turns |-> <<>>,
     messages |-> <<>>, finalResponse |-> {}, result |-> {}, error |-> NoError]

\* The filter has not been applied.
IdleFilter ==
    [applied |-> FALSE, items |-> <<>>, preferences |-> NoPreferences, result |-> <<>>,
     byPrice |-> <<>>, byAllergens |-> <<>>, recommendedMeal |-> JsNull, fresh |-> {}, hit |-> {}]

\* No call is in progress.
IdleCall == [pc |-> "idle", op |-> "none", url |-> NoUrl, input |-> {}, output |-> {}, error |-> {}]

\* No server process runs.
NoServer == [running |-> FALSE, timers |-> 0, due |-> 0, sweptDay |-> 0, passOk |-> TRUE]

Init ==
    /\ db = FALSE
    /\ store = {}
    /\ nextId = 1
    /\ now = 1
    /\ saved = [k \in Keys |-> {}]
    /\ lastCall = NoCall
    /\ req = [r \in Requests |-> IdleRequest]
    /\ served = {}
    /\ cleanupDue = FALSE
    /\ ex = IdleExtraction
    /\ fl = IdleFilter
    /\ fn = IdleCall
    /\ srv = NoServer

orchestratorVars == <<req, served, cleanupDue>>

\* The state of the services checked on their own.
serviceVars == <<ex, fl, fn, srv>>

\* ------------------------------------------------- SpecCache: the actions

\* init(): open the file, CREATE TABLE IF NOT EXISTS, then invalidateOldRecords().
CallInit ==
    LET out == invalidateOldRecords(TRUE, store, nextId, now) IN
    /\ ~db
    /\ db' = TRUE
    /\ store' = out.store
    /\ saved' = SavedAfterInvalidate(saved, now)
    /\ lastCall' = [NoCall EXCEPT !.op = "init", !.before = store]
    /\ UNCHANGED <<nextId, now>>

\* The steps of init() that can reject: open() of the file, and the cleanup
\* that follows the CREATE statements.
InitFaults == {"open", "invalidate"}

\* this.db after an init() that failed at `step`: this.db = await open(...)
\* assigns only when open() resolves, and the catch does not unset it.
DbAfterFailedInit(isOpen, step) == IF step = "open" THEN isOpen ELSE TRUE

\* init() fails: the catch rethrows whatever was thrown as InitFailedError.
CallInitFails(step) ==
    /\ ~db
    /\ db' = DbAfterFailedInit(db, step)
    /\ lastCall' = [NoCall EXCEPT !.op = "init", !.status = "error", !.before = store,
                                  !.error = WrapError("InitFailed", step)]
    /\ UNCHANGED <<store, nextId, now, saved>>

\* close(): closes the database and unsets db; a no-op when db is unset.
CallClose ==
    /\ db' = FALSE
    /\ lastCall' = [NoCall EXCEPT !.op = "close", !.initialized = db, !.before = store]
    /\ UNCHANGED <<store, nextId, now, saved>>

CallGet(u, d) ==
    LET out == getCachedMenu(db, store, nextId, u, d) IN
    /\ store' = out.store
    /\ lastCall' = [op |-> "get", url |-> u, date |-> d, data |-> {}, initialized |-> db,
                    status |-> out.status, value |-> out.value, error |-> out.error,
                    before |-> store, savedBefore |-> saved[<<u, d>>],
                    prev |-> Summary(lastCall)]
    /\ UNCHANGED <<db, nextId, now, saved>>

CallSave(u, d, x) ==
    LET out == saveMenuToCache(db, store, nextId, u, d, x) IN
    /\ nextId <= MaxId
    /\ store' = out.store
    /\ nextId' = out.nextId
    /\ saved' = IF out.status = "ok" THEN [saved EXCEPT ![<<u, d>>] = {x}] ELSE saved
    /\ lastCall' = [NoCall EXCEPT !.op = "save", !.url = u, !.date = d, !.data = {x},
                                  !.initialized = db, !.status = out.status,
                                  !.error = out.error, !.before = store,
                                  !.savedBefore = saved[<<u, d>>],
                                  !.prev = Summary(lastCall)]
    /\ UNCHANGED <<db, now>>

CallInvalidate ==
    LET out == invalidateOldRecords(db, store, nextId, now) IN
    /\ store' = out.store
    /\ saved' = IF out.status = "ok" THEN SavedAfterInvalidate(saved, now) ELSE saved
    /\ lastCall' = [NoCall EXCEPT !.op = "invalidate", !.initialized = db,
                                  !.status = out.status, !.error = out.error,
                                  !.before = store]
    /\ UNCHANGED <<db, nextId, now>>

\* The test's hand-written row: INSERT INTO menu_cache (url, date, data) with
\* text that is not JSON. A plain INSERT fails on a UNIQUE(url, date) conflict.
InsertCorrupted(u, d) ==
    /\ db
    /\ nextId <= MaxId
    /\ UniqueConflict(store, u, d) = {}
    /\ store' = store \cup {[id |-> nextId, url |-> u, date |-> d, data |-> CorruptText]}
    /\ nextId' = nextId + 1
    /\ UNCHANGED <<db, now, saved>>

\* Local midnight passes.
Midnight ==
    /\ now < MaxDay
    /\ now' = now + 1
    /\ UNCHANGED <<db, store, nextId, saved>>

CacheNext ==
    \/ CallInit /\ UNCHANGED <<orchestratorVars, serviceVars>>
    \/ \E step \in InitFaults : CallInitFails(step) /\ UNCHANGED <<orchestratorVars, serviceVars>>
    \/ CallClose /\ UNCHANGED <<orchestratorVars, serviceVars>>
    \/ \E u \in Urls, d \in DateStrings : CallGet(u, d) /\ UNCHANGED <<orchestratorVars, serviceVars>>
    \/ \E u \in Urls, d \in DateStrings : \E x \in TestMenus(d) :
          CallSave(u, d, x) /\ UNCHANGED <<orchestratorVars, serviceVars>>
    \/ CallInvalidate /\ UNCHANGED <<orchestratorVars, serviceVars>>
    \/ \E u \in Urls, d \in DateStrings :
          InsertCorrupted(u, d) /\ lastCall' = NoCall /\ UNCHANGED <<orchestratorVars, serviceVars>>
    \/ Midnight /\ lastCall' = NoCall /\ UNCHANGED <<orchestratorVars, serviceVars>>

SpecCache == Init /\ [][CacheNext]_vars

\* --------------------------------------------------- SpecCache: the claims

CallKeyRows(c, st) == {r \in st : r.url = c.url /\ r.date = c.date}

\* C1: getCachedMenu(u, d) returns a menu only if the store holds an entry
\* saved under exactly (u, d), and the menu returned is that entry's: the
\* data of the latest valid save under (u, d), never that of another date.
C1_ExactMatchLookup ==
    (lastCall.op = "get" /\ lastCall.value # {}) =>
        /\ lastCall.status = "ok"
        /\ lastCall.value = lastCall.savedBefore
        /\ \E r \in CallKeyRows(lastCall, lastCall.before) :
              ~JSONParseThrows(r.data) /\ lastCall.value = {JSONParse(r.data)}

\* A lookup of (u, d2) answers not-found while (u, d1), d1 # d2, holds a
\* valid entry and (u, d2) holds none.
C1_Witness ==
    /\ lastCall.op = "get" /\ lastCall.status = "ok" /\ lastCall.value = {}
    /\ CallKeyRows(lastCall, lastCall.before) = {}
    /\ \E d1 \in DateStrings : d1 # lastCall.date /\ saved[<<lastCall.url, d1>>] # {}

\* C2: a getCachedMenu(u, d) that finds an entry whose payload does not
\* deserialize returns not-found without failing and leaves no entry for
\* (u, d); the same lookup repeated returns not-found again, without error.
C2_CorruptedSelfHealed ==
    (lastCall.op = "get" /\ lastCall.initialized) =>
        /\ Summary(lastCall).healed =>
              /\ lastCall.status = "ok" /\ lastCall.value = {}
              /\ CallKeyRows(lastCall, store) = {}
        /\ (/\ lastCall.prev.healed
            /\ lastCall.prev.url = lastCall.url /\ lastCall.prev.date = lastCall.date) =>
              /\ lastCall.status = "ok" /\ lastCall.value = {}
              /\ store = lastCall.before

\* The repeated lookup, right after the one that healed the entry.
C2_Witness ==
    /\ lastCall.op = "get" /\ lastCall.initialized
    /\ lastCall.prev.healed
    /\ lastCall.prev.url = lastCall.url /\ lastCall.prev.date = lastCall.date
    /\ lastCall.value = {}

\* C3: every getCachedMenu, saveMenuToCache or invalidateOldRecords call made
\* while the cache is not initialized (before init(), after close()) fails
\* with the NotInitialized error kind and leaves the store unchanged.
C3_NotInitializedError ==
    (lastCall.op \in {"get", "save", "invalidate"} /\ ~lastCall.initialized) =>
        /\ lastCall.status = "error"
        /\ lastCall.error.kind = "NotInitialized"
        /\ store = lastCall.before

\* C4: invalidateOldRecords() deletes every entry whose date is strictly
\* earlier than today's calendar date and leaves every entry dated today or
\* later in the store, unchanged.
C4_InvalidateOldRecords ==
    (lastCall.op = "invalidate" /\ lastCall.status = "ok") =>
        store = {r \in lastCall.before : DayOfString(r.date) >= now}

\* A pass that deleted an entry and kept another.
C4_Witness ==
    /\ lastCall.op = "invalidate" /\ lastCall.status = "ok"
    /\ lastCall.before \ store # {}
    /\ store # {}

\* C5: saveMenuToCache is an upsert: the store never holds two entries for
\* one (u, d); right after saveMenuToCache(u, d, x) the entry of (u, d) reads
\* back as x; and a lookup returns the data of the most recent save.
C5_SaveIsUpsert ==
    /\ \A k \in Keys : Cardinality(SelectMenu(store, k[1], k[2])) <= 1
    /\ (lastCall.op = "save" /\ lastCall.status = "ok") =>
          {JSONParse(r.data) : r \in CallKeyRows(lastCall, store)} = lastCall.data
    /\ (lastCall.op = "get" /\ lastCall.status = "ok" /\ lastCall.savedBefore # {}) =>
          lastCall.value = lastCall.savedBefore

\* A lookup that follows a save which replaced other data under the same key.
C5_Witness ==
    /\ lastCall.op = "get" /\ lastCall.status = "ok" /\ lastCall.value # {}
    /\ lastCall.prev.op = "save" /\ lastCall.prev.replaced
    /\ lastCall.prev.url = lastCall.url /\ lastCall.prev.date = lastCall.date

\* C29: closed is terminal: once close() has completed on an initialized
\* cache, no call brings the cache back to the initialized state.
C29_ClosedIsTerminal ==
    [][(lastCall.op = "close" /\ lastCall.initialized /\ ~db) => ~db']_vars

\* What a getCachedMenu(u, d) call would return in a given state of the cache.
LookupResult(isOpen, st, u, d) ==
    LET out == getCachedMenu(isOpen, st, 0, u, d) IN <<out.status, out.value, out.error>>

\* C34: saveMenuToCache(u, d, x) changes only the entry for (u, d): a lookup
\* of any other key, another url or the same url with another date, returns
\* the same before and after the save; and a getCachedMenu that finds a valid
\* entry or no entry leaves the store as it was.
C34_SaveChangesOnlyItsKey ==
    [][/\ lastCall'.op = "save" =>
             \A k \in Keys :
                 k # <<lastCall'.url, lastCall'.date>> =>
                     LookupResult(db', store', k[1], k[2]) = LookupResult(db, store, k[1], k[2])
       /\ (/\ lastCall'.op = "get"
           /\ \A r \in SelectMenu(store, lastCall'.url, lastCall'.date) : ~JSONParseThrows(r.data)) =>
             store' = store]_vars

\* A save under (u, d) was made while the same url held a valid entry for
\* another date, which is still there next to the new one.
C34_Witness ==
    /\ lastCall.op = "save" /\ lastCall.status = "ok"
    /\ \E r \in lastCall.before :
          r.url = lastCall.url /\ r.date # lastCall.date /\ ~JSONParseThrows(r.data) /\ r \in store
    /\ Cardinality(store) = 2

\* C38: after an init() that failed with InitFailed the cache is still
\* uninitialized: the getCachedMenu, saveMenuToCache or invalidateOldRecords
\* call that follows fails as a call before init() does, with the message of
\* the not-initialized error as its reason, and leaves the store unchanged.
C38_FailedInitLeavesUninitialized ==
    [][(/\ lastCall.op = "init"
        /\ lastCall.status = "error"
        /\ lastCall'.op \in {"get", "save", "invalidate"}) =>
            /\ lastCall'.status = "error"
            /\ lastCall'.error.reason = NotInitializedMessage
            /\ store' = store]_vars

\* ------------------------------------------- Spec: MenuService.processUrl

CZECH_DAY_NAMES == <<"Nedele", "Pondeli", "Utery", "Streda", "Ctvrtek", "Patek", "Sobota">>

\* The offset of local time from UTC, in hours: Europe/Prague in summer.
LocalOffsetHours == 2

\* The weekday of the clock's day, whatever date was asked for.
getCzechDayNameOfToday(dateString) == CZECH_DAY_NAMES[3]

\* getCzechDayName(date): new Date(date) is midnight UTC of the date and
\* getDay() the weekday of that instant in local time; day 1, 2025-09-30,
\* is a Tuesday.
getCzechDayName(dateString) ==
    LET hours == (DayOfString(dateString) - 1) * 24 + LocalOffsetHours
        dayIndex == ((hours \div 24) + 2) % 7
    IN  CZECH_DAY_NAMES[dayIndex + 1]

\* The page texts scrape() can resolve with: a daily menu with a weekday and
\* prices, a permanent menu without any daily-menu phrase, a navigation bar.
Pages ==
    {<<Word("denni menu", 10), Word("pondeli", 7), Word("polevka", 7), PriceToken(45, 5),
       Word("rizek", 5), PriceToken(120, 6)>>,
     <<Word("jidelni listek", 14), Word("stala nabidka", 13), Word("polevka", 7),
       PriceToken(45, 4), Word("hlavni jidlo", 12), PriceToken(150, 5)>>,
     <<Word("uvod", 4), Word("poledni menu", 12), Word("kontakty", 8), Word("o nas", 5),
       Word("rezervace", 9), Word("ubytovani", 9), Word("galerie", 7)>>}

\* scrape() rejects with FetchFailedError or HtmlEmptyError.
ScrapeErrors == {WrapError("FetchFailed", "Failed to fetch URL"), WrapError("HtmlEmpty", "")}

\* extractMenu() rejects with one of these.
ExtractErrors ==
    {WrapError("ExtractionFailed", "Max iterations reached"), WrapError("InvalidJson", ""),
     WrapError("InvalidSchema", "Invalid item name"), WrapError("ApiKeyMissing", "")}

\* The item lists extractMenu() can resolve with: prices are numbers.
ExtractionResults ==
    {<<>>,
     <<MkItem("Rizek", Num(120), Arr(<<"1", "3">>), Str("hlavni jidlo")),
       MkItem("Polevka", Num(45), JsNull, Str("polevka"))>>}

\* The preferences a request can carry: none, a ceiling with excluded
\* allergens, an empty object.
PreferenceSets ==
    {NoPreferences, MkPreferences(Num(100), Arr(<<1, 3>>)), MkPreferences(JsUndefined, JsUndefined)}

\* getHostnameFallback(url): host.replace("www.", "") deletes the first
\* occurrence of "www." wherever it is, split(".")[0] keeps what precedes the
\* first dot that is left; "unknown" when new URL(url) throws.
getHostnameFallback(url) ==
    IF url.protocol = "" THEN <<"unknown">>
    ELSE LET host == url.host
             hits == {i \in 1..(Len(host) - 1) : host[i] = "www" /\ host[i + 1] = "."}
             first == CHOOSE i \in hits : \A j \in hits : i <= j
             replaced == IF hits = {} THEN host
                         ELSE SubSeq(host, 1, first - 1) \o SubSeq(host, first + 2, Len(host))
             dots == {i \in DOMAIN replaced : replaced[i] = "."}
         IN  IF dots = {} THEN replaced
             ELSE SubSeq(replaced, 1, (CHOOSE i \in dots : \A j \in dots : i <= j) - 1)

\* What extractRestaurantName() can resolve with: the name the service gave
\* or the hostname fallback.
RestaurantNames(url) == {<<"Test Restaurant">>, getHostnameFallback(url)}

IsCacheHitWithItems(cached) == cached # {} /\ \A c \in cached : Len(c.menu_items) > 0

\* if (cachedResult): null is the only falsy value getCachedMenu resolves with
\* for the objects processUrl saves.
IsCacheHit(cached) == cached # {}

CacheHitResponseUnfiltered(cachedResult, preferences) ==
    [cachedResult EXCEPT !.recommendedMeal = JsNull]

\* The response to a cache hit.
CacheHitResponse(cachedResult, preferences) ==
    IF preferences.given
    THEN LET filteredItems == applyPreferencesFilter(cachedResult.menu_items, preferences)
         IN  [cachedResult EXCEPT !.menu_items = filteredItems,
                                  !.recommendedMeal = calculateRecommendedMeal(filteredItems)]
    ELSE [cachedResult EXCEPT !.recommendedMeal = JsNull]

\* extractionStatus
ExtractionStatus(items) == IF Len(items) = 0 THEN "no_daily_menu" ELSE "success"

\* finalItems and recommendedMeal
FinalItems(items, preferences) ==
    IF preferences.given THEN applyPreferencesFilter(items, preferences) ELSE items

RecommendedMealAlways(finalItems, preferences) == calculateRecommendedMeal(finalItems)

RecommendedMeal(finalItems, preferences) ==
    IF preferences.given THEN calculateRecommendedMeal(finalItems) ELSE JsNull

\* restaurantMenu, the response on the accept path.
RestaurantMenu(name, date, day, items, preferences) ==
    MkMenu(name, date, day, FinalItems(items, preferences), ExtractionStatus(items),
           RecommendedMeal(FinalItems(items, preferences), preferences))

MenuToCacheFiltered(name, date, day, items, preferences) ==
    RestaurantMenu(name, date, day, items, preferences)

\* menuToCache, the record saved on the accept path.
MenuToCache(name, date, day, items, preferences) ==
    MkMenu(name, date, day, items, ExtractionStatus(items), JsNull)

\* emptyMenu, the record saved and returned when the classifier rejects the page.
EmptyMenu(name, date, day) == MkMenu(name, date, day, <<>>, "no_daily_menu", JsNull)

Append2(q, evs) == [q EXCEPT !.events = @ \o evs]

\* A rejected await: the error propagates out of processUrl.
Fails(q, err, ev) == [Append2(q, <<ev>>) EXCEPT !.pc = "failed", !.error = err]

ExtractErrorAsEmptyMenu(q, err) ==
    [Append2(q, <<"extractError">>) EXCEPT !.pc = "name", !.items = <<>>]

\* await llmService.extractMenu(...) rejects.
OnExtractError(q, err) == Fails(q, err, "extractError")

RespondDespiteSaveError(q, out, menu, response) ==
    IF out.status = "ok"
    THEN [Append2(q, <<"write", "response">>) EXCEPT
            !.pc = "done", !.response = {response}, !.persisted = {menu},
            !.inserted = out.store \ store]
    ELSE [Append2(q, <<"writeError", "response">>) EXCEPT !.pc = "done", !.response = {response}]

\* await cacheService.saveMenuToCache(url, date, menu); return response.
SaveThenRespond(q, out, menu, response) ==
    IF out.status = "ok"
    THEN [Append2(q, <<"write", "response">>) EXCEPT
            !.pc = "done", !.response = {response}, !.persisted = {menu},
            !.inserted = out.store \ store]
    ELSE Fails(q, out.error, "writeError")

\* The history of answered keys after an invalidation pass on clock day `day`.
ServedAfterInvalidate(sv, day) == {k \in sv : DayOfString(k[2]) >= day}

\* ------------------------------------------------------- Spec: the actions

cacheOnlyVars == <<saved, lastCall>>

\* startServer(): await cacheService.init() before the server listens; no
\* request is in flight.
ServerStart ==
    LET out == invalidateOldRecords(TRUE, store, nextId, now) IN
    /\ ~db
    /\ \A r \in Requests : req[r].pc = "idle"
    /\ db' = TRUE
    /\ store' = out.store
    /\ served' = ServedAfterInvalidate(served, now)
    /\ UNCHANGED <<nextId, now, req, cleanupDue>>

\* SIGTERM / SIGINT, afterAll: cacheService.close().
Shutdown ==
    /\ db
    /\ db' = FALSE
    /\ UNCHANGED <<store, nextId, now, req, served, cleanupDue>>

\* Local midnight passes: the timer set by scheduleMidnightCleanup comes due.
MidnightPasses ==
    /\ Midnight
    /\ ~cleanupDue
    /\ cleanupDue' = TRUE
    /\ UNCHANGED <<req, served>>

\* The timer's callback: invalidateOldRecords(), its failure logged, and the
\* next timer scheduled.
MidnightCleanup ==
    LET out == invalidateOldRecords(db, store, nextId, now) IN
    /\ cleanupDue
    /\ cleanupDue' = FALSE
    /\ store' = out.store
    /\ served' = IF out.status = "ok" THEN ServedAfterInvalidate(served, now) ELSE served
    /\ UNCHANGED <<db, nextId, now, req>>

\* A validated request enters processUrl and its SELECT runs:
\* const cachedResult = await cacheService.getCachedMenu(url, date), up to the
\* row's JSON.parse.
Lookup(r, u, d, p) ==
    LET q == [IdleRequest EXCEPT !.pc = "lookup", !.url = u, !.date = d, !.preferences = p,
                                 !.events = <<"lookup">>,
                                 !.servedAtLookup = (<<u, d>> \in served)]
        rows == SelectMenu(store, u, d)
        row == CHOOSE x \in rows : TRUE
        cached == IF rows = {} \/ JSONParseThrows(row.data) THEN {} ELSE {JSONParse(row.data)}
    IN
    /\ req[r].pc = "idle"
    /\ req' = [req EXCEPT ![r] =
          IF ~db THEN Fails(q, WrapError("ReadFailed", NotInitializedMessage), "lookupError")
          ELSE IF rows # {} /\ JSONParseThrows(row.data)
               THEN [q EXCEPT !.pc = "heal", !.healRow = {row}]
          ELSE IF IsCacheHit(cached)
               THEN [Append2(q, IF p.given THEN <<"filter", "response">> ELSE <<"response">>)
                       EXCEPT !.pc = "done",
                              !.response = {CacheHitResponse(CHOOSE c \in cached : TRUE, p)}]
          ELSE [q EXCEPT !.pc = "fetch"]]
    /\ served' = IF db /\ IsCacheHit(cached) THEN served \cup {<<u, d>>} ELSE served
    /\ UNCHANGED <<db, store, nextId, now, cleanupDue>>

\* getCachedMenu's catch (parseError): the DELETE of the corrupted row, then
\* return null. On a closed database the statement fails.
Heal(r) ==
    LET q == req[r]
        row == CHOOSE x \in q.healRow : TRUE
        after == HealCorrupted(store, row)
    IN
    /\ q.pc = "heal"
    /\ IF db
       THEN /\ store' = after
            /\ req' = [req EXCEPT ![r] = [q EXCEPT !.pc = "fetch", !.healRow = {},
                                                   !.deleted = store \ after]]
       ELSE /\ store' = store
            /\ req' = [req EXCEPT ![r] =
                  Fails([q EXCEPT !.healRow = {}],
                        WrapError("ReadFailed", "SQLITE_MISUSE: Database is closed"), "lookupError")]
    /\ UNCHANGED <<db, nextId, now, served, cleanupDue>>

\* await scraperService.scrape(url) rejects.
FetchFails(r, err) ==
    /\ req[r].pc = "fetch"
    /\ req' = [req EXCEPT ![r] = Fails(req[r], err, "fetchError")]
    /\ UNCHANGED <<db, store, nextId, now, served, cleanupDue>>

\* scrape() resolves and hasDailyMenuIndicators(scraped.text) decides which
\* call of the reasoning service comes next.
Fetch(r, page) ==
    LET accepted == hasDailyMenuIndicators(page) IN
    /\ req[r].pc = "fetch"
    /\ req' = [req EXCEPT ![r] =
          [Append2(req[r], <<"fetch", "classify">>) EXCEPT
              !.accepted = accepted, !.pc = IF accepted THEN "extract" ELSE "name"]]
    /\ UNCHANGED <<db, store, nextId, now, served, cleanupDue>>

ExtractFails(r, err) ==
    /\ req[r].pc = "extract"
    /\ req' = [req EXCEPT ![r] = OnExtractError(req[r], err)]
    /\ UNCHANGED <<db, store, nextId, now, served, cleanupDue>>

\* menuResponse = await llmService.extractMenu(...)
Extract(r, items) ==
    /\ req[r].pc = "extract"
    /\ req' = [req EXCEPT ![r] = [Append2(req[r], <<"extract">>) EXCEPT !.pc = "name", !.items = items]]
    /\ UNCHANGED <<db, store, nextId, now, served, cleanupDue>>

\* extractRestaurantName() resolves; the menu is built, saved and returned.
NameAndPersist(r, name) ==
    LET q == req[r]
        day == getCzechDayName(q.date)
        menu == IF q.accepted THEN MenuToCache(name, q.date, day, q.items, q.preferences)
                ELSE EmptyMenu(name, q.date, day)
        response == IF q.accepted THEN RestaurantMenu(name, q.date, day, q.items, q.preferences)
                    ELSE EmptyMenu(name, q.date, day)
        out == saveMenuToCache(db, store, nextId, q.url, q.date, menu)
        q2 == SaveThenRespond(Append2(q, IF q.accepted THEN <<"name", "filter">> ELSE <<"name">>),
                              out, menu, response)
    IN
    /\ q.pc = "name"
    /\ nextId <= MaxId
    /\ store' = out.store
    /\ nextId' = out.nextId
    /\ req' = [req EXCEPT ![r] = q2]
    /\ served' = IF q2.pc = "done" THEN served \cup {<<q.url, q.date>>} ELSE served
    /\ UNCHANGED <<db, now, cleanupDue>>

\* The response (or the error) has gone out; the slot is free again.
Finish(r) ==
    /\ req[r].pc \in {"done", "failed"}
    /\ req' = [req EXCEPT ![r] = IdleRequest]
    /\ UNCHANGED <<db, store, nextId, now, served, cleanupDue>>

Next ==
    \/ ServerStart /\ UNCHANGED <<cacheOnlyVars, serviceVars>>
    \/ Shutdown /\ UNCHANGED <<cacheOnlyVars, serviceVars>>
    \/ MidnightPasses /\ UNCHANGED <<lastCall, serviceVars>>
    \/ MidnightCleanup /\ UNCHANGED <<cacheOnlyVars, serviceVars>>
    \/ \E u \in RequestUrls, d \in DateStrings :
          InsertCorrupted(u, d) /\ UNCHANGED <<lastCall, req, served, cleanupDue, serviceVars>>
    \/ \E r \in Requests :
          \/ \E u \in RequestUrls, d \in DateStrings, p \in PreferenceSets :
                Lookup(r, u, d, p) /\ UNCHANGED <<cacheOnlyVars, serviceVars>>
          \/ Heal(r) /\ UNCHANGED <<cacheOnlyVars, serviceVars>>
          \/ \E err \in ScrapeErrors : FetchFails(r, err) /\ UNCHANGED <<cacheOnlyVars, serviceVars>>
          \/ \E page \in Pages : Fetch(r, page) /\ UNCHANGED <<cacheOnlyVars, serviceVars>>
          \/ \E err \in ExtractErrors : ExtractFails(r, err) /\ UNCHANGED <<cacheOnlyVars, serviceVars>>
          \/ \E items \in ExtractionResults : Extract(r, items) /\ UNCHANGED <<cacheOnlyVars, serviceVars>>
          \/ /\ req[r].pc = "name"
             /\ \E name \in RestaurantNames(req[r].url) : NameAndPersist(r, name)
             /\ UNCHANGED <<cacheOnlyVars, serviceVars>>
          \/ Finish(r) /\ UNCHANGED <<cacheOnlyVars, serviceVars>>

Spec == Init /\ [][Next]_vars

\* ------------------------------------------------------- Spec: the claims

\* The step `ev` has occurred in the request.
Did(q, ev) == \E i \in DOMAIN q.events : q.events[i] = ev

\* The rows of the table that hold unparsable text under the request's key.
CorruptedRowsOf(q) ==
    {row \in q.deleted : row.url = q.url /\ row.date = q.date /\ JSONParseThrows(row.data)}

\* C6: a request whose (url, date) was answered successfully before, and not
\* invalidated since, is answered from the cache: between its start and its
\* response there is no page fetch, no classification, no extraction call and
\* no name-resolution call, with or without preferences. (A lookup on a closed
\* database fails the request, again without any of these calls.)
C6_SecondRequestFromCache ==
    \A r \in Requests :
        (req[r].servedAtLookup /\ req[r].pc # "idle") =>
            /\ \A ev \in {"fetch", "fetchError", "classify", "extract", "extractError",
                          "name", "write", "writeError"} : ~Did(req[r], ev)
            /\ \/ Did(req[r], "lookupError") /\ req[r].pc = "failed"
               \/ /\ req[r].pc = "done"
                  /\ req[r].events = IF req[r].preferences.given
                                     THEN <<"lookup", "filter", "response">>
                                     ELSE <<"lookup", "response">>
                  /\ req[r].inserted = {}

C6_Witness ==
    \E r \in Requests :
        /\ req[r].servedAtLookup
        /\ req[r].pc = "done"
        /\ req[r].events = <<"lookup", "filter", "response">>
        /\ \E x \in req[r].response : x.menu_items # <<>>

\* C7: on a cache miss where the classifier rejects the page, extraction is
\* never invoked and only the name resolver is; the response, which is also
\* the record persisted under (url, date), has menu_items empty, daily_menu
\* false and recommendedMeal null.
C7_RejectedPageResponse ==
    \A r \in Requests :
        (req[r].pc = "done" /\ Did(req[r], "classify") /\ ~req[r].accepted) =>
            /\ ~Did(req[r], "extract") /\ ~Did(req[r], "extractError")
            /\ Did(req[r], "name")
            /\ req[r].persisted = req[r].response
            /\ \A x \in req[r].response :
                  /\ x.menu_items = <<>>
                  /\ x.recommendedMeal = JsNull
                  /\ "daily_menu" \in DOMAIN x
                  /\ x["daily_menu"] = FALSE

\* C8: every cache entry the orchestrator writes stores recommendedMeal = null
\* and the complete, unfiltered item list extraction returned, whatever
\* preferences the writing request carried.
C8_CachedEntryUnfiltered ==
    /\ \A row \in store :
          ~JSONParseThrows(row.data) =>
              /\ JSONParse(row.data).recommendedMeal = JsNull
              /\ JSONParse(row.data).menu_items \in ExtractionResults \cup {<<>>}
    /\ \A r \in Requests : \A x \in req[r].persisted :
          /\ x.recommendedMeal = JsNull
          /\ x.menu_items = req[r].items
          /\ \A row \in req[r].inserted : JSONParse(row.data) = x

C8_Witness ==
    \E r \in Requests :
        /\ req[r].pc = "done"
        /\ req[r].preferences.given
        /\ Len(req[r].items) = 2
        /\ \E x \in req[r].response : Len(x.menu_items) = 1 /\ x.recommendedMeal # JsNull
        /\ \E row \in req[r].inserted :
              row \in store /\ Len(JSONParse(row.data).menu_items) = 2

\* C9: a request that misses the cache, is accepted by the classifier and
\* returns a response went through cache lookup, page fetch, classification,
\* extraction, name resolution, preference filtering, cache write, response,
\* in this order; the response follows a successful saveMenuToCache for
\* (url, date), and a failed cache write fails the request without a response.
C9_StepOrder ==
    \A r \in Requests :
        /\ (req[r].pc = "done" /\ req[r].accepted) =>
              /\ req[r].events = <<"lookup", "fetch", "classify", "extract", "name",
                                   "filter", "write", "response">>
              /\ \E row \in req[r].inserted : row.url = req[r].url /\ row.date = req[r].date
        /\ Did(req[r], "response") => Did(req[r], "write") \/ ~Did(req[r], "fetch")
        /\ Did(req[r], "writeError") =>
              /\ req[r].pc = "failed"
              /\ req[r].response = {}
              /\ req[r].error.kind = "WriteFailed"
              /\ ~Did(req[r], "response")

C9_Witness ==
    \E r \in Requests :
        /\ req[r].pc = "done"
        /\ req[r].accepted
        /\ req[r].events = <<"lookup", "fetch", "classify", "extract", "name",
                             "filter", "write", "response">>
        /\ req[r].response # {}

\* C10 as stated: when the page fetch or extraction fails, the request fails
\* with that error, no empty menu is returned in its place, and the cache
\* holds exactly the entries it held before the request.
C10_FailureLeavesCacheUntouched ==
    \A r \in Requests :
        (Did(req[r], "fetchError") \/ Did(req[r], "extractError")) =>
            /\ req[r].pc = "failed"
            /\ req[r].response = {}
            /\ req[r].error \in ScrapeErrors \cup ExtractErrors
            /\ req[r].inserted = {}
            /\ req[r].deleted = {}

\* C10 amended: when the page fetch or extraction fails, the request fails
\* with that error, no empty menu is returned in its place and no entry is
\* written; the only change the request makes to the cache is the removal of
\* a corrupted entry its lookup found under (url, date).
C10_FailureWritesNothing ==
    \A r \in Requests :
        (Did(req[r], "fetchError") \/ Did(req[r], "extractError")) =>
            /\ req[r].pc = "failed"
            /\ req[r].response = {}
            /\ IF Did(req[r], "fetchError") THEN req[r].error \in ScrapeErrors
                                            ELSE req[r].error \in ExtractErrors
            /\ req[r].inserted = {}
            /\ req[r].persisted = {}
            /\ req[r].deleted = CorruptedRowsOf(req[r])
            /\ Cardinality(req[r].deleted) <= 1

C10_Witness ==
    \E r \in Requests :
        /\ Did(req[r], "extractError")
        /\ req[r].pc = "failed"
        /\ req[r].deleted # {}

\* The record a lookup of (u, d) in the table `st` resolves with, if any.
CachedRecord(st, u, d) ==
    {JSONParse(row.data) : row \in {x \in SelectMenu(st, u, d) : ~JSONParseThrows(x.data)}}

\* C21: a request answered straight from its lookup (a cache hit) and carrying
\* preferences gets the cached record with menu_items replaced by the filtered
\* cached items and recommendedMeal by the recommender's result on them;
\* without preferences it gets the cached record with recommendedMeal null;
\* the step leaves the table as it was.
C21_CacheHitResponse ==
    [][\A r \in Requests :
          (req[r].pc = "idle" /\ req'[r].pc = "done") =>
              LET q == req'[r]
                  cached == CachedRecord(store, q.url, q.date)
              IN  /\ Cardinality(cached) = 1
                  /\ store' = store
                  /\ \A c \in cached :
                        q.response =
                          IF q.preferences.given
                          THEN {[c EXCEPT
                                  !.menu_items = applyPreferencesFilter(c.menu_items, q.preferences),
                                  !.recommendedMeal = calculateRecommendedMeal(
                                      applyPreferencesFilter(c.menu_items, q.preferences))]}
                          ELSE {[c EXCEPT !.recommendedMeal = JsNull]}]_vars

\* A hit with preferences that drop one of the two cached items.
C21_Witness ==
    \E r \in Requests :
        /\ req[r].pc = "done"
        /\ req[r].events = <<"lookup", "filter", "response">>
        /\ \E c \in CachedRecord(store, req[r].url, req[r].date) :
              /\ Len(c.menu_items) = 2
              /\ \E x \in req[r].response :
                    Len(x.menu_items) = 1 /\ x.recommendedMeal = x.menu_items[1].name

\* The stored record seen through a preference set: with preferences, its
\* items filtered and the first of them recommended; without, the record
\* with no recommendation. Every other field is the record's.
ViewOf(record, preferences) ==
    IF preferences.given
    THEN LET kept == applyPreferencesFilter(record.menu_items, preferences) IN
         [record EXCEPT !.menu_items = kept,
                        !.recommendedMeal = IF kept = <<>> THEN JsNull ELSE kept[1].name]
    ELSE [record EXCEPT !.recommendedMeal = JsNull]

\* C39: preferences are a pure view over the stored record: for every
\* preference set, none included, the response of a request that missed is
\* the view of the record it stored, and the response of a request answered
\* from the cache is the same view of the record it found. A hit and a miss
\* with the same preferences, items and name therefore give the same
\* menu_items, recommendedMeal, restaurant_name, date, day_of_week and status.
C39_PreferencesArePureView ==
    [][\A r \in Requests :
          /\ (req[r].pc = "name" /\ req'[r].pc = "done") =>
                /\ Cardinality(req'[r].persisted) = 1
                /\ CachedRecord(store', req'[r].url, req'[r].date) = req'[r].persisted
                /\ req'[r].response = {ViewOf(m, req'[r].preferences) : m \in req'[r].persisted}
          /\ (req[r].pc = "idle" /\ req'[r].pc = "done") =>
                req'[r].response =
                    {ViewOf(c, req'[r].preferences) : c \in CachedRecord(store, req'[r].url, req'[r].date)}]_vars

\* A request with a price ceiling and excluded allergens was answered from
\* the cache with what a miss returns for the record's items and name: one
\* of the two stored items.
C39_Witness ==
    \E r \in Requests :
        /\ req[r].pc = "done"
        /\ req[r].events = <<"lookup", "filter", "response">>
        /\ req[r].preferences.price = Num(100)
        /\ \E c \in CachedRecord(store, req[r].url, req[r].date) :
              /\ Len(c.menu_items) = 2
              /\ req[r].response = {RestaurantMenu(c.restaurant_name, c.date, c.day_of_week,
                                                   c.menu_items, req[r].preferences)}
              /\ \E x \in req[r].response : Len(x.menu_items) = 1

\* C22: on the accept path the response and the persisted record carry
\* daily_menu, true exactly when extraction returned at least one item,
\* however many items survive the preference filter.
C22_DailyMenuFlag ==
    \A r \in Requests :
        (req[r].pc = "done" /\ req[r].accepted) =>
            \A x \in req[r].response \cup req[r].persisted :
                /\ "daily_menu" \in DOMAIN x
                /\ x["daily_menu"] = (Len(req[r].items) > 0)

\* C28: no request is answered from a cache entry whose date is earlier than
\* the current local calendar date: every response served straight from the
\* lookup is for a date that is not before today.
C28_NoStaleMenuServed ==
    [][\A r \in Requests :
          (req[r].pc = "idle" /\ req'[r].pc = "done") =>
              /\ CachedRecord(store, req'[r].url, req'[r].date) # {}
              /\ ~TextLess(req'[r].date, getTodayDate(now))]_vars

\* The weekday of a YYYY-MM-DD date by the calendar, 0 for Sunday.
WeekdayOf(dateString) ==
    LET y == 1000 * dateString[1] + 100 * dateString[2] + 10 * dateString[3] + dateString[4]
        m == 10 * dateString[6] + dateString[7]
        d == 10 * dateString[9] + dateString[10]
        t == <<0, 3, 2, 5, 0, 3, 5, 1, 4, 6, 2, 4>>
        yy == IF m < 3 THEN y - 1 ELSE y
    IN  (yy + (yy \div 4) - (yy \div 100) + (yy \div 400) + t[m] + d) % 7

JsBool(b) == [t |-> "boolean", v |-> b]
Obj(f) == [t |-> "object", v |-> f]
Chars(s) == [t |-> "string", c |-> s]

\* o.k: undefined on a primitive, an array or an object without the property.
Prop(o, k) == IF o.t = "object" /\ k \in DOMAIN o.v THEN o.v[k] ELSE JsUndefined

\* The strings whose trim() is empty.
BlankStrings == {"", "  "}

\* !!value
Truthy(x) ==
    CASE x.t \in {"null", "undefined"} -> FALSE
      [] x.t = "number" -> x.v # 0
      [] x.t = "boolean" -> x.v
      [] x.t = "string" -> IF "c" \in DOMAIN x THEN x.c # <<>> ELSE x.v # ""
      [] OTHER -> TRUE

\* typeof x
TypeOf(x) == IF x.t \in {"null", "array", "object"} THEN "object" ELSE x.t

\* An error object: its kind (class), its message and what its meta carries.
LlmError(kind, message, reason, originalError) ==
    [kind |-> kind, message |-> message, reason |-> reason, originalError |-> originalError]

ApiKeyMissingError == LlmError("ApiKeyMissing", "Missing OPENAI_API_KEY. Set it in .env", JsUndefined, JsUndefined)
InvalidJsonError == LlmError("InvalidJson", "Invalid JSON returned from LLM", JsUndefined, JsUndefined)
InvalidSchemaError(reason) ==
    LlmError("InvalidSchema", "LLM output did not match MenuResponse schema", Str(reason), JsUndefined)
ExtractionFailedError(reason, originalError) ==
    LlmError("ExtractionFailed", "LLM extraction failed", reason, originalError)
TypeError(message) == LlmError("TypeError", message, JsUndefined, JsUndefined)
SyntaxError == LlmError("SyntaxError", "Unexpected token in JSON", JsUndefined, JsUndefined)

\* ---- normalizePrice
Digits == {"0", "1", "2", "3", "4", "5", "6", "7", "8", "9"}
DigitValue(c) ==
    CASE c = "0" -> 0 [] c = "1" -> 1 [] c = "2" -> 2 [] c = "3" -> 3 [] c = "4" -> 4
      [] c = "5" -> 5 [] c = "6" -> 6 [] c = "7" -> 7 [] c = "8" -> 8 [] c = "9" -> 9

\* raw.replace(/[^\d,.]/g, "")
Cleaned(cs) == SelectSeq(cs, LAMBDA c : c \in Digits \cup {",", "."})

KeepCommas(cs) == cs

\* cleaned.replace(",", "."): the first comma only.
RECURSIVE ReplaceFirstComma(_)
ReplaceFirstComma(cs) ==
    IF cs = <<>> THEN <<>>
    ELSE IF Head(cs) = "," THEN <<".">> \o Tail(cs)
    ELSE <<Head(cs)>> \o ReplaceFirstComma(Tail(cs))

\* The longest prefix of digits.
RECURSIVE DigitPrefix(_)
DigitPrefix(cs) ==
    IF cs = <<>> \/ Head(cs) \notin Digits THEN <<>>
    ELSE <<Head(cs)>> \o DigitPrefix(Tail(cs))

RECURSIVE DigitsValue(_)
DigitsValue(ds) ==
    IF ds = <<>> THEN 0 ELSE 10 * DigitsValue(SubSeq(ds, 1, Len(ds) - 1)) + DigitValue(ds[Len(ds)])

RECURSIVE DropTrailingZeros(_)
DropTrailingZeros(ds) ==
    IF ds # <<>> /\ ds[Len(ds)] = "0" THEN DropTrailingZeros(SubSeq(ds, 1, Len(ds) - 1)) ELSE ds

\* A number with a fractional part: its integer part and its decimals.
Fraction(int, decimals) == [t |-> "number", v |-> int, decimals |-> decimals]
NaN == [t |-> "number", nan |-> TRUE]

\* parseFloat of a text of digits, commas and dots: the longest prefix
\* digits [. digits]; NaN when that prefix holds no digit.
ParseFloat(cs) ==
    LET whole == DigitPrefix(cs)
        rest == SubSeq(cs, Len(whole) + 1, Len(cs))
        decimals == IF rest # <<>> /\ Head(rest) = "." THEN DigitPrefix(Tail(rest)) ELSE <<>>
    IN  IF whole = <<>> /\ decimals = <<>> THEN NaN
        ELSE IF DropTrailingZeros(decimals) = <<>> THEN Num(DigitsValue(whole))
        ELSE Fraction(DigitsValue(whole), DropTrailingZeros(decimals))

\* String(raw) of a value that is neither null, undefined nor a number.
ToChars(raw) ==
    IF raw.t = "string" /\ "c" \in DOMAIN raw THEN raw.c
    ELSE IF raw.t = "boolean" THEN (IF raw.v THEN <<"t", "r", "u", "e">> ELSE <<"f", "a", "l", "s", "e">>)
    ELSE <<"[", "o", "b", "j", "e", "c", "t", "]">>

normalizePrice(raw) ==
    IF raw.t \in {"null", "undefined"} THEN Num(0)
    ELSE IF raw.t = "number" THEN raw
    ELSE LET price == ParseFloat(ReplaceFirstComma(Cleaned(ToChars(raw))))
         IN  IF price = NaN THEN Num(0) ELSE price

\* ---- validateRawMenuResponse
ValidString(x) == Truthy(x) /\ x.t = "string" /\ x.v \notin BlankStrings

\* What the validation of one item throws, if anything: reading a property of
\* a null item is a TypeError.
ItemFault(item) ==
    IF item.t = "null" THEN {TypeError("Cannot read properties of null (reading 'name')")}
    ELSE IF ~ValidString(Prop(item, "name")) THEN {InvalidSchemaError("Invalid item name")}
    ELSE IF ~ValidString(Prop(item, "category")) THEN {InvalidSchemaError("Missing or invalid category")}
    ELSE {}

\* The first fault of the items, in their order.
RECURSIVE FirstFault(_)
FirstFault(items) ==
    IF items = <<>> THEN {}
    ELSE IF ItemFault(Head(items)) # {} THEN ItemFault(Head(items))
    ELSE FirstFault(Tail(items))

\* What validateRawMenuResponse(parsed) throws: nothing for a valid answer.
validateRawMenuResponse(parsed) ==
    IF TypeOf(parsed) # "object" \/ parsed.t = "null"
    THEN {InvalidSchemaError("Response is not an object")}
    ELSE IF Prop(parsed, "items").t # "array"
    THEN {InvalidSchemaError("Missing or invalid items array")}
    ELSE FirstFault(Prop(parsed, "items").v)

\* ---- normalizePrices
NormalizedItem(item) ==
    [name |-> Prop(item, "name"),
     price |-> IF Prop(item, "price").t = "number" THEN Prop(item, "price")
               ELSE normalizePrice(Prop(item, "price")),
     allergens |-> Prop(item, "allergens"),
     weight |-> Prop(item, "weight"),
     category |-> Prop(item, "category")]

normalizePrices(rawMenu) == [i \in DOMAIN Prop(rawMenu, "items").v |-> NormalizedItem(Prop(rawMenu, "items").v[i])]

\* ---- extractMenuRaw: the tool-calling loop

\* let maxIterations = 5
MaxIterations == 5

\* message.content: null, "", a text that is not JSON, or the JSON text of a value.
EmptyString == Str("")
BrokenText == [t |-> "text", json |-> {}]
Text(value) == [t |-> "text", json |-> {value}]

\* A tool call of the service's turn; args is what JSON.parse of its
\* arguments yields, nothing when the arguments are not JSON.
ToolCall(id, name, args) == [id |-> id, type |-> "function", name |-> name, args |-> args]

\* A turn of the service: a message, a rejected call, or a response without choices.
Message(tool_calls, content) == [kind |-> "message", tool_calls |-> tool_calls, content |-> content]
Rejects(error) == [kind |-> "rejects", error |-> error]
NoChoices == [kind |-> "nochoices"]

\* Executing the tool calls of one turn, in order: the conversation after
\* them, and the error that stopped them if one did.
RECURSIVE RunTools(_, _)
RunTools(messages, tool_calls) ==
    IF tool_calls = <<>> THEN [messages |-> messages, error |-> {}]
    ELSE LET toolCall == Head(tool_calls) IN
         IF toolCall.type = "function" /\ toolCall.name = "normalizePrice"
         THEN IF toolCall.args = {} THEN [messages |-> messages, error |-> {SyntaxError}]
              ELSE LET args == CHOOSE a \in toolCall.args : TRUE
                       normalizedPrice == normalizePrice(Prop(args, "raw"))
                   IN  RunTools(Append(messages, [role |-> "tool", content |-> normalizedPrice,
                                                  tool_call_id |-> toolCall.id]),
                                Tail(tool_calls))
         ELSE RunTools(messages, Tail(tool_calls))

\* The catch of extractMenuRaw: InvalidJson and InvalidSchema pass, any other
\* Error is wrapped in a new ExtractionFailedError that carries its message.
Catch(error) ==
    IF error.kind \in {"InvalidJson", "InvalidSchema"} THEN error
    ELSE IF error.kind = "NonError" THEN ExtractionFailedError(JsUndefined, JsUndefined)
    ELSE ExtractionFailedError(JsUndefined, Str(error.message))

Throws(e, error) == [e EXCEPT !.pc = "threw", !.error = error]

RemainingUnchanged(maxIterations) == maxIterations

\* maxIterations--
RemainingAfterTools(maxIterations) == maxIterations - 1

NoContentAsExhausted(e) ==
    Throws(e, Catch(ExtractionFailedError(Str("Max iterations reached"), JsUndefined)))

\* A turn without tool calls and without content.
OnNoContent(e) == Throws(e, Catch(InvalidJsonError))

RawPriceItem(item) == [NormalizedItem(item) EXCEPT !.price = Prop(item, "price")]

\* normalizePrices' loop body.
PushNormalized(item) == NormalizedItem(item)

\* After the loop: the check of finalResponse, the validation, and
\* extractMenu's normalizePrices.
AfterLoop(e) ==
    IF e.finalResponse = {} \/ ~Truthy(CHOOSE v \in e.finalResponse : TRUE)
    THEN Throws(e, Catch(ExtractionFailedError(Str("Max iterations reached"), JsUndefined)))
    ELSE LET parsed == CHOOSE v \in e.finalResponse : TRUE
             fault == validateRawMenuResponse(parsed)
         IN  IF fault # {} THEN Throws(e, Catch(CHOOSE f \in fault : TRUE))
             ELSE [e EXCEPT !.pc = "returned",
                            !.result = {[i \in DOMAIN Prop(parsed, "items").v |->
                                            PushNormalized(Prop(parsed, "items").v[i])]}]

\* One pass of the while loop after client.chat.completions.create settled.
AfterTurn(e, turn) ==
    IF turn.kind = "rejects" THEN Throws(e, Catch(turn.error))
    ELSE IF turn.kind = "nochoices"
    THEN Throws(e, Catch(TypeError("Cannot read properties of undefined (reading 'message')")))
    ELSE LET pushed == Append(e.messages, [role |-> "assistant", tool_calls |-> turn.tool_calls,
                                           content |-> turn.content])
         IN
         IF Len(turn.tool_calls) > 0
         THEN LET ran == RunTools(pushed, turn.tool_calls)
                  left == RemainingAfterTools(e.maxIterations)
                  e2 == [e EXCEPT !.messages = ran.messages, !.maxIterations = left]
              IN  IF ran.error # {}
                  THEN Throws([e EXCEPT !.messages = ran.messages], Catch(CHOOSE x \in ran.error : TRUE))
                  ELSE IF left > 0 THEN e2
                  ELSE AfterLoop(e2)
         ELSE LET e2 == [e EXCEPT !.messages = pushed] IN
              IF turn.content.t = "text"
              THEN IF turn.content.json = {} THEN Throws(e2, Catch(InvalidJsonError))
                   ELSE AfterLoop([e2 EXCEPT !.finalResponse = turn.content.json])
              ELSE OnNoContent(e2)

\* ---- what the reasoning service can answer
RawItemPool ==
    {Obj([name |-> Str("Rizek"), price |-> Chars(<<"1", "4", "5", ",", "-">>),
          allergens |-> Arr(<<"1", "3">>), category |-> Str("hlavni jidlo")]),
     Obj([name |-> Str("Polevka"), price |-> Num(45), category |-> Str("polevka")]),
     Obj([name |-> Str("Gulas"), category |-> Str("hlavni jidlo")]),
     Obj([name |-> Str("Svickova"), price |-> JsNull, category |-> Str("hlavni jidlo")]),
     Obj([name |-> Str("Kapr"), price |-> Chars(<<"d", "l", "e", " ", "v", "a", "h", "y">>),
          category |-> Str("ryby")]),
     Obj([name |-> Str("Kure"), price |-> Chars(<<"8", "9", ",", "5", "0", " ", "K", "c">>),
          category |-> Str("hlavni jidlo")]),
     Obj([price |-> Num(99), category |-> Str("hlavni jidlo")]),
     Obj([name |-> Num(5), category |-> Str("hlavni jidlo")]),
     Obj([name |-> Str("  "), category |-> Str("hlavni jidlo")]),
     Obj([name |-> Str("Knedliky"), price |-> Num(30)]),
     Obj([name |-> Str("Knedliky"), category |-> Str("")]),
     JsNull,
     Num(7)}

RECURSIVE SeqsUpTo(_, _)
SeqsUpTo(S, n) ==
    IF n = 0 THEN {<<>>}
    ELSE LET shorter == SeqsUpTo(S, n - 1) IN
         shorter \cup {Append(q, x) : q \in shorter, x \in S}

\* The values a final answer can parse to.
FinalAnswers ==
    {JsNull, Num(0), JsBool(FALSE), Num(5), Str("menu"), JsBool(TRUE), Arr(<<>>),
     Obj([menu |-> Arr(<<>>)]), Obj([items |-> Str("none")]), Obj([items |-> JsNull])}
    \cup {Obj([items |-> Arr(items)]) : items \in SeqsUpTo(RawItemPool, MaxItems)}

\* The tool calls a turn can carry.
ToolTurns ==
    {<<ToolCall("call_1", "normalizePrice", {Obj([raw |-> Chars(<<"1", "4", "5", ",", "-">>)])})>>,
     <<ToolCall("call_1", "normalizePrice", {Obj([raw |-> Chars(<<"8", "9", " ", "K", "c">>)])}),
       ToolCall("call_2", "lookupAllergen", {Obj([code |-> Num(7)])})>>,
     <<ToolCall("call_1", "normalizePrice", {})>>}

ServiceTurns ==
    {Message(tool_calls, JsNull) : tool_calls \in ToolTurns}
    \cup {Message(<<>>, content) : content \in {JsNull, EmptyString, BrokenText}}
    \cup {Message(<<>>, Text(value)) : value \in FinalAnswers}
    \cup {Rejects(LlmError("APIError", "429 Rate limit exceeded", JsUndefined, JsUndefined)),
          Rejects(LlmError("NonError", "", JsUndefined, JsUndefined)),
          NoChoices}

\* ---- the actions

\* extractMenu(content) is called: getOpenAIClient(), outside the try.
StartExtract(apiKey) ==
    /\ ex.pc = "idle"
    /\ ex' = IF apiKey
             THEN [IdleExtraction EXCEPT !.pc = "loop", !.apiKey = TRUE,
                                         !.maxIterations = MaxIterations,
                                         !.messages = <<[role |-> "system"], [role |-> "user"]>>]
             ELSE Throws([IdleExtraction EXCEPT !.apiKey = FALSE], ApiKeyMissingError)
    /\ UNCHANGED <<db, store, nextId, now, saved, lastCall, orchestratorVars, fl, fn, srv>>

\* await client.chat.completions.create(...) settles and the loop body runs.
ServiceTurn(turn) ==
    /\ ex.pc = "loop"
    /\ ex.maxIterations > 0
    /\ ex' = AfterTurn([ex EXCEPT !.calls = @ + 1, !.turns = Append(@, turn.kind)], turn)
    /\ UNCHANGED <<db, store, nextId, now, saved, lastCall, orchestratorVars, fl, fn, srv>>

\* The caller has the result or the error; the next call can start.
ExtractSettled ==
    /\ ex.pc \in {"returned", "threw"}
    /\ ex' = IdleExtraction
    /\ UNCHANGED <<db, store, nextId, now, saved, lastCall, orchestratorVars, fl, fn, srv>>

ExtractNext ==
    \/ \E apiKey \in BOOLEAN : StartExtract(apiKey)
    \/ \E turn \in ServiceTurns : ServiceTurn(turn)
    \/ ExtractSettled

SpecExtract == Init /\ [][ExtractNext]_vars

\* ------------------------------------------------- SpecExtract: the claims

\* The service's turn the loop handled last.
LastTurn == ex.messages[Len(ex.messages)]

\* The last turn carried no tool call and no content that parses as JSON.
NoFinalAnswerTurn ==
    /\ ex.calls > 0
    /\ LastTurn.role = "assistant"
    /\ LastTurn.tool_calls = <<>>
    /\ (LastTurn.content.t # "text" \/ LastTurn.content.json = {})

\* C11: the reasoning service is called at most 5 times within one extractMenu
\* call: while the loop runs fewer than 5 calls were made and each of them
\* used up one unit of the budget, and once 5 calls were made extractMenu has
\* returned or failed, so no sixth call follows.
C11_AtMostFiveCalls ==
    /\ ex.calls <= 5
    /\ Len(ex.turns) = ex.calls
    /\ ex.pc = "loop" => ex.calls < 5 /\ ex.maxIterations = 5 - ex.calls
    /\ ex.calls = 5 => ex.pc \in {"returned", "threw"}

C11_Witness == ex.calls = 5 /\ ex.pc = "returned"

\* C12: if every one of the 5 turns carries tool calls and none a final
\* answer, extractMenu fails with ExtractionFailed and the error carries the
\* iteration limit as its reason.
C12_ExhaustedReason ==
    (ex.pc = "threw" /\ ex.calls = 5 /\ ex.maxIterations = 0 /\ ex.finalResponse = {}) =>
        /\ ex.error.kind = "ExtractionFailed"
        /\ ex.error.reason = Str("Max iterations reached")

\* C13: a turn without tool calls whose content is not parseable as JSON, or
\* which has no content at all, makes extractMenu fail with InvalidJson, and
\* no further service call is made.
\* (A call made after such a turn would leave the loop running, or end it
\* with another outcome, while that turn is still the last of the conversation.)
C13_NoFinalAnswerIsInvalidJson ==
    NoFinalAnswerTurn =>
        /\ ex.pc = "threw"
        /\ ex.error = InvalidJsonError
        /\ ex.finalResponse = {}
        /\ ex.turns[ex.calls] = "message"

C13_Witness ==
    /\ ex.pc = "threw"
    /\ NoFinalAnswerTurn
    /\ LastTurn.content = EmptyString
    /\ ex.error.kind = "InvalidJson"
    /\ ex.calls = 3

\* What the specification asks of a final answer, as its text says: a
\* non-null object with an items array whose items each have a non-empty
\* string name and a non-empty string category.
HasNonEmptyString(item, k) ==
    /\ item.t = "object"
    /\ k \in DOMAIN item.v
    /\ item.v[k].t = "string"
    /\ item.v[k].v # ""

MatchesSchema(parsed) ==
    /\ parsed.t = "object"
    /\ "items" \in DOMAIN parsed.v
    /\ parsed.v.items.t = "array"
    /\ \A i \in DOMAIN parsed.v.items.v :
          /\ HasNonEmptyString(parsed.v.items.v[i], "name")
          /\ HasNonEmptyString(parsed.v.items.v[i], "category")

\* C14: a final answer that parses as JSON makes extractMenu fail with
\* InvalidSchema whenever the parsed value is not a non-null object, has no
\* items array, or holds an item without a non-empty string name or category;
\* in every other case validation accepts it.
C14_SchemaValidation ==
    \A parsed \in ex.finalResponse :
        IF MatchesSchema(parsed)
        THEN ex.pc = "returned"
        ELSE ex.pc = "threw" /\ ex.error.kind = "InvalidSchema"

\* C15: extractMenu returns a result or fails with ExtractionFailed,
\* InvalidJson or InvalidSchema; no other kind of error escapes it.
C15_ThreeErrorKinds ==
    ex.pc = "threw" => ex.error.kind \in {"ExtractionFailed", "InvalidJson", "InvalidSchema"}

\* C16: in every result extractMenu returns each item's price is a number,
\* never a raw string, whether or not the service called the normalizePrice
\* tool during the loop: the price is the raw price itself when that is a
\* number and normalizePrice of the raw price otherwise.
C16_PricesAreNumbers ==
    \A items \in ex.result : \A parsed \in ex.finalResponse :
        /\ DOMAIN items = DOMAIN parsed.v.items.v
        /\ \A i \in DOMAIN items :
              /\ items[i].price.t = "number"
              /\ items[i].price # NaN
              /\ items[i].price = normalizePrice(Prop(parsed.v.items.v[i], "price"))
              /\ items[i].name = parsed.v.items.v[i].v.name

C16_Witness ==
    /\ ex.pc = "returned"
    /\ \A i \in DOMAIN ex.messages : ex.messages[i].role # "tool"
    /\ \E items \in ex.result : \E parsed \in ex.finalResponse :
          /\ Len(items) = 2
          /\ Prop(parsed.v.items.v[1], "price") = Chars(<<"1", "4", "5", ",", "-">>)
          /\ items[1].price = Num(145)
          /\ Prop(parsed.v.items.v[2], "price") = JsUndefined
          /\ items[2].price = Num(0)

\* --------------------- SpecFilter: applyPreferencesFilter, calculateRecommendedMeal

\* The prices and allergen lists of the items given to the filter (the tests'
\* items, a cached record's items, an extraction's items): a price at, under
\* and over the ceiling, null or absent; a list that is null, absent, empty,
\* or holds codes.
FilterItemPool ==
    {<<Num(80), JsNull>>, <<Num(100), Arr(<<"1">>)>>, <<Num(200), JsUndefined>>,
     <<Num(80), Arr(<<"1", "7">>)>>, <<Num(200), Arr(<<"07">>)>>, <<JsNull, Arr(<<>>)>>,
     <<JsUndefined, JsNull>>, <<Num(100), Arr(<<"07">>)>>, <<JsNull, Arr(<<"1", "7">>)>>,
     <<JsUndefined, Arr(<<"1">>)>>}

\* The item lists: the i-th item is named by its place.
ItemName(i) == CASE i = 1 -> "First" [] i = 2 -> "Second" [] i = 3 -> "Third" [] OTHER -> "Later"
FilterItemLists ==
    UNION {{[i \in 1..n |-> MkItem(ItemName(i), shape[i][1], shape[i][2], Str("hlavni jidlo"))] :
               shape \in [1..n -> FilterItemPool]} : n \in 0..MaxItems}

\* The preferences: none, or an object with an optional ceiling and an
\* optional list of excluded allergen numbers.
FilterPreferences ==
    {NoPreferences}
    \cup {MkPreferences(price, allergens) :
             price \in {JsUndefined, Num(100)},
             allergens \in {JsUndefined, Arr(<<>>), Arr(<<7>>)}}

\* The preferences with one rule only.
PriceOnly(preferences) == [preferences EXCEPT !.allergens = JsUndefined]
AllergensOnly(preferences) == [preferences EXCEPT !.price = JsUndefined]

\* processUrl's filtering of freshly extracted items, and of the same items
\* read back from the cache.
ApplyFilter(items, preferences) ==
    LET result == FinalItems(items, preferences)
        cachedResult == JSONParse(JSONStringify(MenuToCache(<<"hospoda">>, <<>>, "Pondeli", items, preferences)))
    IN
    /\ ~fl.applied
    /\ fl' = [applied |-> TRUE, items |-> items, preferences |-> preferences,
              result |-> result,
              byPrice |-> FinalItems(items, PriceOnly(preferences)),
              byAllergens |-> FinalItems(items, AllergensOnly(preferences)),
              recommendedMeal |-> calculateRecommendedMeal(result),
              fresh |-> {RestaurantMenu(<<"hospoda">>, <<>>, "Pondeli", items, preferences)},
              hit |-> {CacheHitResponse(cachedResult, preferences)}]
    /\ UNCHANGED <<db, store, nextId, now, saved, lastCall, orchestratorVars, ex, fn, srv>>

\* The result has been used; the next application can start.
FilterReturned ==
    /\ fl.applied
    /\ fl' = IdleFilter
    /\ UNCHANGED <<db, store, nextId, now, saved, lastCall, orchestratorVars, ex, fn, srv>>

FilterNext ==
    \/ \E items \in FilterItemLists, preferences \in FilterPreferences : ApplyFilter(items, preferences)
    \/ FilterReturned

SpecFilter == Init /\ [][FilterNext]_vars

\* -------------------------------------------------- SpecFilter: the claims

InSeq(x, q) == \E i \in DOMAIN q : q[i] = x

\* The price rule in the specification's words: the item has a defined
\* numeric price and that price is at most the ceiling.
HasPriceWithin(item, ceiling) == item.price.t = "number" /\ item.price.v <= ceiling.v

\* The allergen rule in the specification's words: the item's own list is
\* non-null, non-empty and shares a code, compared as a number, with the
\* excluded set.
SharesExcludedCode(item, excluded) ==
    /\ item.allergens.t = "array"
    /\ item.allergens.v # <<>>
    /\ \E i \in DOMAIN item.allergens.v : InSeq(ToNumber(item.allergens.v[i]), excluded.v)

\* C17: with preferences.price set, the filter keeps an item only if it has
\* a defined numeric price that is at most the ceiling; every item whose
\* price is missing, absent or null, is excluded.
C17_PriceRule ==
    (fl.applied /\ fl.preferences.given /\ fl.preferences.price # JsUndefined) =>
        fl.byPrice = SelectSeq(fl.items, LAMBDA item : HasPriceWithin(item, fl.preferences.price))

\* C18: with a non-empty preferences.allergens, the filter excludes an item
\* exactly when the item's own allergen list is non-null, non-empty and holds
\* a code that, as a number, is in the excluded set; an item whose list is
\* null, absent or empty is never excluded by this rule.
C18_AllergenRule ==
    (/\ fl.applied
     /\ fl.preferences.given
     /\ fl.preferences.allergens # JsUndefined
     /\ fl.preferences.allergens.v # <<>>) =>
        fl.byAllergens =
            SelectSeq(fl.items, LAMBDA item : ~SharesExcludedCode(item, fl.preferences.allergens))

C18_Witness ==
    /\ fl.applied
    /\ fl.preferences = MkPreferences(JsUndefined, Arr(<<7>>))
    /\ Len(fl.items) = 2
    /\ fl.items[1].allergens = Arr(<<"07">>)
    /\ fl.items[2].allergens = JsNull
    /\ fl.result = <<fl.items[2]>>

C20_RecommendedIsFirst ==
    fl.applied =>
        /\ fl.recommendedMeal = IF fl.result = <<>> THEN JsNull ELSE fl.result[1].name
        /\ fl.recommendedMeal = JsNull <=> fl.result = <<>>
        /\ \A x \in fl.fresh \cup fl.hit :
              /\ x.recommendedMeal # JsNull =>
                    x.menu_items # <<>> /\ x.recommendedMeal = x.menu_items[1].name
              /\ fl.preferences.given => x.recommendedMeal = fl.recommendedMeal

C20_Witness ==
    /\ fl.applied
    /\ Len(fl.items) = 2
    /\ Len(fl.result) = 2
    /\ fl.preferences.given
    /\ fl.recommendedMeal = Str("First")
    /\ \E x \in fl.hit : x.recommendedMeal = Str("First") /\ Len(x.menu_items) = 2

\* -------------------------------- SpecName: LLMService.extractRestaurantName

\* name.toLowerCase(), for the letters the names below are written in.
LowerOf(c) ==
    CASE c = "U" -> "u" [] c = "N" -> "n" [] c = "K" -> "k" [] c = "O" -> "o"
      [] c = "W" -> "w" [] c = "F" -> "f" [] OTHER -> c
ToLowerCase(cs) == [i \in DOMAIN cs |-> LowerOf(cs[i])]

\* content.trim()
RECURSIVE TrimStart(_)
TrimStart(cs) == IF cs # <<>> /\ Head(cs) = " " THEN TrimStart(Tail(cs)) ELSE cs
RECURSIVE TrimEnd(_)
TrimEnd(cs) ==
    IF cs # <<>> /\ cs[Len(cs)] = " " THEN TrimEnd(SubSeq(cs, 1, Len(cs) - 1)) ELSE cs
Trim(cs) == TrimEnd(TrimStart(cs))

\* name.length < 100
MaxNameLength == 100

\* isValidRestaurantName(name): name is undefined or a string.
isValidRestaurantName(name) ==
    /\ Truthy(name)
    /\ ToLowerCase(name.c) # <<"u", "n", "k", "n", "o", "w", "n">>
    /\ Len(name.c) > 0
    /\ Len(name.c) < MaxNameLength

\* response.choices[0].message.content?.trim()
ExtractedName(content) == IF content.t = "string" THEN Chars(Trim(content.c)) ELSE JsUndefined

NameRethrown(call, error) == [call EXCEPT !.pc = "threw", !.error = {error}]

\* catch (error): the hostname fallback is returned, whatever was thrown.
NameCatch(call, error) ==
    [call EXCEPT !.pc = "returned", !.error = {error},
                 !.output = {Str(getHostnameFallback(call.url))}]

\* The body of the try once the service call has settled with `turn`.
AfterNameTurn(call, turn) ==
    IF turn.kind = "rejects" THEN NameCatch(call, turn.error)
    ELSE IF turn.kind = "nochoices"
         THEN NameCatch(call, TypeError("Cannot read properties of undefined (reading 'message')"))
    ELSE LET extractedName == ExtractedName(turn.content) IN
         IF isValidRestaurantName(extractedName)
         THEN [call EXCEPT !.pc = "returned", !.output = {extractedName}]
         ELSE [call EXCEPT !.pc = "returned", !.output = {Str(getHostnameFallback(call.url))}]

\* The urls extractRestaurantName is called with: the request's url, a host
\* without "www.", a host that is only "www" and a domain, hosts with "www."
\* after the first label (menu.www.pivnice.cz) and inside it
\* (awww.pivnice.cz), and a text that new URL() rejects.
NameUrls ==
    Urls \cup {MkUrl(<<"www", ".", "cz">>), MkUrl(<<"menu", ".", "pivnice", ".", "cz">>),
               MkUrl(<<"menu", ".", "www", ".", "pivnice", ".", "cz">>),
               MkUrl(<<"a", "www", ".", "pivnice", ".", "cz">>),
               [protocol |-> "", host |-> <<"not a url">>]}

Repeat(c, n) == [i \in 1..n |-> c]

\* The texts the service can answer with.
NameContents ==
    LET cores == {<<>>, <<"u", "n", "k", "n", "o", "w", "n">>, <<"U", "n", "k", "n", "o", "w", "n">>,
                  <<"U", "N", "K", "N", "O", "W", "N">>, <<"U", " ", "F", "l", "e", "k", "u">>,
                  Repeat("a", MaxNameLength - 1), Repeat("a", MaxNameLength),
                  Repeat("a", MaxNameLength + 1)}
    IN  {JsNull} \cup {Chars(pad \o core \o pad) : pad \in {<<>>, <<" ">>}, core \in cores}

\* The ways the service call can settle.
NameTurns ==
    {Rejects(LlmError("APIConnectionTimeoutError", "Request timed out.", JsUndefined, JsUndefined)),
     Rejects(LlmError("APIError", "500 Internal Server Error", JsUndefined, JsUndefined)),
     NoChoices}
    \cup {Message(<<>>, content) : content \in NameContents}

\* extractRestaurantName(content) is called: getOpenAIClient() runs inside the try.
StartName(url, apiKey) ==
    LET call == [IdleCall EXCEPT !.op = "extractRestaurantName", !.url = url] IN
    /\ fn.pc = "idle"
    /\ fn' = IF apiKey THEN [call EXCEPT !.pc = "await"] ELSE NameCatch(call, ApiKeyMissingError)
    /\ UNCHANGED <<db, store, nextId, now, saved, lastCall, orchestratorVars, ex, fl, srv>>

\* await client.chat.completions.create(...) settles.
NameTurn(turn) ==
    /\ fn.pc = "await"
    /\ fn.op = "extractRestaurantName"
    /\ fn' = AfterNameTurn([fn EXCEPT !.input = @ \cup {turn}], turn)
    /\ UNCHANGED <<db, store, nextId, now, saved, lastCall, orchestratorVars, ex, fl, srv>>

\* The caller has the name.
NameSettled ==
    /\ fn.pc \in {"returned", "threw"}
    /\ fn.op = "extractRestaurantName"
    /\ fn' = IdleCall
    /\ UNCHANGED <<db, store, nextId, now, saved, lastCall, orchestratorVars, ex, fl, srv>>

NameNext ==
    \/ \E url \in NameUrls, apiKey \in BOOLEAN : StartName(url, apiKey)
    \/ \E turn \in NameTurns : NameTurn(turn)
    \/ NameSettled

SpecName == Init /\ [][NameNext]_vars

\* --------------------------------------------------- SpecName: the claims

\* C23: extractRestaurantName never fails outward: whatever the service call
\* does (rejects, times out, answers without choices, with no text or with a
\* text that is no name), with or without credentials and for every url, the
\* call settles by returning a string.
C23_NameNeverFails ==
    /\ fn.pc # "threw"
    /\ fn.pc = "returned" =>
          /\ Cardinality(fn.output) = 1
          /\ \A name \in fn.output : TypeOf(name) = "string"

\* The service call rejected, the url does not parse, and a string came back.
C23_Witness ==
    /\ fn.pc = "returned"
    /\ fn.url.protocol = ""
    /\ \E e \in fn.error : e.kind = "APIConnectionTimeoutError"
    /\ fn.output = {Str(<<"unknown">>)}

\* The hostname with a leading "www." removed, cut at its first dot.
FirstLabelWithoutWww(host) ==
    LET rest == IF Len(host) >= 2 /\ host[1] = "www" /\ host[2] = "." THEN SubSeq(host, 3, Len(host)) ELSE host
        dots == {i \in DOMAIN rest : rest[i] = "."}
    IN  IF dots = {} THEN rest ELSE SubSeq(rest, 1, (CHOOSE i \in dots : \A j \in dots : i <= j) - 1)

\* The name the service produced, without the blanks around it; none when
\* the call failed or answered without a text.
ServiceName(call) ==
    {Trim(turn.content.c) : turn \in {t \in call.input : t.kind = "message" /\ t.content.t = "string"}}

\* C32: for a url that parses, extractRestaurantName returns the service's
\* name when that name is non-empty, shorter than 100 characters and not
\* "unknown" in any casing, and in every other case the url's hostname with a
\* leading "www." removed and cut at its first dot.
C32_NameOrHostname ==
    (fn.pc = "returned" /\ fn.op = "extractRestaurantName" /\ fn.url.protocol # "") =>
        LET accepted == {n \in ServiceName(fn) :
                            /\ n # <<>>
                            /\ Len(n) < 100
                            /\ ToLowerCase(n) # <<"u", "n", "k", "n", "o", "w", "n">>}
        IN  IF accepted # {} THEN fn.output = {Chars(n) : n \in accepted}
            ELSE fn.output = {Str(FirstLabelWithoutWww(fn.url.host))}

\* ------------------------- SpecClassify: MenuService.hasDailyMenuIndicators

\* A run of n characters without any keyword.
Filler(n) == Word("lorem", n)

\* The parts a page text is put together from: a navigation bar, text
\* between it and the daily-menu phrase, the phrase, text after it, and what
\* follows. The fillers put the last navigation term, and the weekday after
\* "poledni menu", just inside and just outside the window.
NavigationParts ==
    {<<>>, <<Word("Uvod", 4)>>, <<Word("uvod", 4), Word("kontakty", 8)>>,
     <<Word("uvod", 4), Word("kontakty", 8), Word("kontakty", 8)>>,
     <<Word("uvod", 4), Word("kontakty", 8), Word("o nas", 5)>>}
GapsBefore == {<<>>, <<Filler(393)>>, <<Filler(394)>>}
PhraseParts ==
    {<<>>, <<Word("poledni menu", 12)>>, <<Word("Denni menu", 10)>>,
     <<Word("jidelni listek", 14)>>, <<Word("menu dne", 8), Word("POLEDNI MENU", 12)>>}
GapsAfter == {<<>>, <<Filler(379)>>, <<Filler(380)>>}
SignalParts ==
    {<<>>, <<Word("Pondeli", 7)>>, <<Word("date", 6)>>,
     <<PriceToken(60, 5), PriceToken(200, 6)>>, <<PriceToken(59, 5), PriceToken(120, 6)>>,
     <<PriceToken(120, 6), PriceToken(201, 6)>>, <<PriceToken(120, 6)>>,
     <<PriceToken(45, 5), PriceToken(120, 6), PriceToken(150, 6)>>,
     <<Word("polevka", 7)>>, <<Word("rizek", 5)>>, <<Word("vyvar", 5), Word("kure", 4)>>}

ClassifierTexts ==
    {n \o g \o k \o h \o x :
        n \in NavigationParts, g \in GapsBefore, k \in PhraseParts, h \in GapsAfter, x \in SignalParts}

\* hasDailyMenuIndicators(scraped.text) is evaluated.
Classify(text) ==
    /\ fn.pc = "idle"
    /\ fn' = [IdleCall EXCEPT !.pc = "returned", !.op = "hasDailyMenuIndicators",
                              !.input = {text}, !.output = {JsBool(hasDailyMenuIndicators(text))}]
    /\ UNCHANGED <<db, store, nextId, now, saved, lastCall, orchestratorVars, ex, fl, srv>>

\* processUrl goes on with the answer.
Classified ==
    /\ fn.pc = "returned"
    /\ fn.op = "hasDailyMenuIndicators"
    /\ fn' = IdleCall
    /\ UNCHANGED <<db, store, nextId, now, saved, lastCall, orchestratorVars, ex, fl, srv>>

ClassifyNext ==
    \/ \E text \in ClassifierTexts : Classify(text)
    \/ Classified

SpecClassify == Init /\ [][ClassifyNext]_vars

\* ----------------------------------------------- SpecClassify: the claims

\* The tokens of the lower-cased text that lie in the window of 400
\* characters to either side of the start of the located phrase.
WindowOf(text) ==
    LET lower == ToLowerCaseText(text)
        at == KeywordPosition(lower, 1)
    IN  {i \in DOMAIN lower :
            /\ TokenStart(lower, i) >= at - WindowRadius /\ TokenStart(lower, i) >= 0
            /\ TokenStart(lower, i) + lower[i].n <= at + WindowRadius}

PhraseOccurs(text) ==
    \E i \in DOMAIN text : \E k \in DOMAIN dailyKeywords : LowerWord(text[i].w) = dailyKeywords[k]

NavigationTermsIn(text, window) == {LowerWord(text[i].w) : i \in window} \cap navKeywords

StrongSignalIn(text, window) ==
    LET words == {LowerWord(text[i].w) : i \in window} IN
    \/ words \cap weekdays # {}
    \/ "date" \in words
    \/ Cardinality({i \in window : /\ text[i].w = "price"
                                   /\ text[i].v \in MinDailyPrice..MaxDailyPrice}) >= 2
    \/ words \cap soupKeywords # {} /\ words \cap mainDishKeywords # {}

\* C24: hasDailyMenuIndicators(text) is true exactly when a daily-menu phrase
\* occurs in the lower-cased text, fewer than 3 distinct navigation terms lie
\* in the window around the located phrase, and the window holds a strong
\* signal (a weekday, a date, two prices within 60..200, or a soup with a
\* main dish); with 3 or more navigation terms in the window the answer is
\* false whatever signals are there; the call always returns a boolean.
C24_ClassifierRule ==
    (fn.op = "hasDailyMenuIndicators" /\ fn.pc = "returned") =>
        \A text \in fn.input :
            /\ fn.output =
                  {JsBool(/\ PhraseOccurs(text)
                          /\ Cardinality(NavigationTermsIn(text, WindowOf(text))) < NavigationCutoff
                          /\ StrongSignalIn(text, WindowOf(text)))}
            /\ (/\ PhraseOccurs(text)
                /\ Cardinality(NavigationTermsIn(text, WindowOf(text))) >= NavigationCutoff)
                  => fn.output = {JsBool(FALSE)}

\* Three navigation terms in the window and a weekday next to the phrase: false.
C24_Witness ==
    /\ fn.op = "hasDailyMenuIndicators"
    /\ fn.pc = "returned"
    /\ fn.output = {JsBool(FALSE)}
    /\ \E text \in fn.input :
          /\ PhraseOccurs(text)
          /\ Cardinality(NavigationTermsIn(text, WindowOf(text))) = NavigationCutoff
          /\ StrongSignalIn(text, WindowOf(text))

\* ----------------------------------- SpecPrice: LLMService.normalizePrice

\* The characters raw prices are written in.
PriceAlphabet == {"1", "0", "5", ",", ".", " ", "K", "-"}

\* The raw values normalizePrice is called with: null, undefined, numbers,
\* the texts of the documentation and of the tests, every short text over
\* the alphabet, and what else JSON.parse of a tool call's arguments can hold.
RawPrices ==
    {JsNull, JsUndefined, Num(0), Num(45), Fraction(89, <<"5">>), JsBool(TRUE), Obj([raw |-> Num(1)])}
    \cup {Chars(cs) : cs \in {<<"1", "4", "5", ",", "5", "0">>, <<"1", "4", "5", " ", "K", "c">>,
                              <<"g", "a", "r", "b", "a", "g", "e">>, <<"4", "5", ",", "-">>,
                              <<"4", "5", ".", "5", "0">>, <<"1", ",", "2", ",", "5">>,
                              <<"1", ".", "0", "0", "0", ",", "5">>}}
    \cup {Chars(cs) : cs \in SeqsUpTo(PriceAlphabet, MaxChars)}

\* normalizePrice(raw) is called and returns.
NormalizePrice(raw) ==
    /\ fn.pc = "idle"
    /\ fn' = [IdleCall EXCEPT !.pc = "returned", !.op = "normalizePrice",
                              !.input = {raw}, !.output = {normalizePrice(raw)}]
    /\ UNCHANGED <<db, store, nextId, now, saved, lastCall, orchestratorVars, ex, fl, srv>>

\* The caller has the number.
PriceReturned ==
    /\ fn.pc = "returned"
    /\ fn.op = "normalizePrice"
    /\ fn' = IdleCall
    /\ UNCHANGED <<db, store, nextId, now, saved, lastCall, orchestratorVars, ex, fl, srv>>

PriceNext ==
    \/ \E raw \in RawPrices : NormalizePrice(raw)
    \/ PriceReturned

SpecPrice == Init /\ [][PriceNext]_vars

\* -------------------------------------------------- SpecPrice: the claims

\* The text with every character other than digits, comma and period
\* deleted and its first comma turned into a period.
PriceText(cs) ==
    LET kept == SelectSeq(cs, LAMBDA c : c \in {"0", "1", "2", "3", "4", "5", "6", "7", "8", "9", ",", "."})
        commas == {i \in DOMAIN kept : kept[i] = ","}
    IN  IF commas = {} THEN kept
        ELSE [kept EXCEPT ![CHOOSE i \in commas : \A j \in commas : i <= j] = "."]

\* C25: normalizePrice never fails: null and undefined give 0, a number gives
\* itself, a text gives the number parsed from it once every character other
\* than digits, comma and period is deleted and the first comma is a period
\* ("145,50" gives 145.5, "145 Kc" gives 145), and 0 when no number can be
\* parsed ("garbage").
C25_NormalizePrice ==
    (fn.op = "normalizePrice" /\ fn.pc = "returned") =>
        \A raw \in fn.input :
            /\ Cardinality(fn.output) = 1
            /\ \A price \in fn.output : price.t = "number"
            /\ raw.t \in {"null", "undefined"} => fn.output = {Num(0)}
            /\ raw.t = "number" => fn.output = {raw}
            /\ (raw.t = "string") =>
                  /\ fn.output = {IF ParseFloat(PriceText(raw.c)) = NaN THEN Num(0)
                                  ELSE ParseFloat(PriceText(raw.c))}
                  /\ raw.c = <<"1", "4", "5", ",", "5", "0">> => fn.output = {Fraction(145, <<"5">>)}
                  /\ raw.c = <<"1", "4", "5", " ", "K", "c">> => fn.output = {Num(145)}
                  /\ raw.c = <<"g", "a", "r", "b", "a", "g", "e">> => fn.output = {Num(0)}
                  /\ (\A i \in DOMAIN raw.c : raw.c[i] \notin Digits) => fn.output = {Num(0)}

\* "145,50" has given 145.5.
C25_Witness ==
    /\ fn.op = "normalizePrice"
    /\ fn.pc = "returned"
    /\ fn.input = {Chars(<<"1", "4", "5", ",", "5", "0">>)}
    /\ fn.output = {Fraction(145, <<"5">>)}

\* ------------------------------- SpecServer: startServer and its timers

\* The DELETE of a pass is rejected by the database (SQLITE_BUSY, I/O error).
InvalidateFails(st, id) ==
    Outcome("error", {}, WrapError("InvalidateFailed", "SQLITE_BUSY: database is locked"), st, id)

TimersAfterPassOkOnly(ok) == IF ok THEN 1 ELSE 0

\* scheduleMidnightCleanup() is called at the end of the try and at the end
\* of the catch of the timer's callback: one new timer either way.
TimersAfterPass(ok) == 1

\* startServer(): await cacheService.init(), which runs a pass, then
\* scheduleMidnightCleanup() and app.listen().
StartServer ==
    LET out == invalidateOldRecords(TRUE, store, nextId, now) IN
    /\ ~srv.running
    /\ db' = TRUE
    /\ store' = out.store
    /\ saved' = SavedAfterInvalidate(saved, now)
    /\ lastCall' = NoCall
    /\ srv' = [running |-> TRUE, timers |-> srv.timers + 1, due |-> srv.due,
               sweptDay |-> now, passOk |-> TRUE]
    /\ UNCHANGED <<nextId, now, orchestratorVars, ex, fl, fn>>

\* Local midnight passes: the pending timers come due.
TimerMidnight ==
    /\ Midnight
    /\ srv.due = 0
    /\ srv' = [srv EXCEPT !.due = srv.timers, !.timers = 0]
    /\ lastCall' = NoCall
    /\ UNCHANGED <<orchestratorVars, ex, fl, fn>>

\* A due timer fires: await invalidateOldRecords(), its failure logged, and
\* scheduleMidnightCleanup() again.
TimerFires(fault) ==
    LET out == IF fault THEN InvalidateFails(store, nextId)
               ELSE invalidateOldRecords(db, store, nextId, now)
        ok == out.status = "ok"
    IN
    /\ srv.due > 0
    /\ store' = out.store
    /\ saved' = IF ok THEN SavedAfterInvalidate(saved, now) ELSE saved
    /\ lastCall' = NoCall
    /\ srv' = [srv EXCEPT !.due = @ - 1, !.timers = @ + TimersAfterPass(ok),
                          !.sweptDay = now, !.passOk = ok]
    /\ UNCHANGED <<db, nextId, now, orchestratorVars, ex, fl, fn>>

\* SIGTERM / SIGINT: await cacheService.close(); process.exit(0). The timers
\* end with the process; the database file stays.
Exit ==
    /\ srv.running
    /\ db' = FALSE
    /\ srv' = NoServer
    /\ lastCall' = NoCall
    /\ UNCHANGED <<store, nextId, now, saved, orchestratorVars, ex, fl, fn>>

ServerNext ==
    \/ StartServer
    \/ TimerMidnight
    \/ \E fault \in BOOLEAN : TimerFires(fault)
    \/ Exit
    \/ \E u \in Urls, d \in DateStrings : \E x \in TestMenus(d) :
          CallSave(u, d, x) /\ UNCHANGED <<orchestratorVars, serviceVars>>

SpecServer == Init /\ [][ServerNext]_vars

\* ------------------------------------------------- SpecServer: the claims

\* C26: while the server runs there is exactly one midnight timer, pending
\* or firing: a pass has run on the current day (during init() or when the
\* timer of the last midnight fired, whether that pass succeeded or failed)
\* or the timer of the midnight just passed is due; timers never accumulate
\* and none is left once the process has ended.
C26_MidnightSweeps ==
    /\ srv.running =>
          /\ srv.timers + srv.due = 1
          /\ srv.due = 0 => srv.sweptDay = now
          /\ srv.due = 1 => srv.sweptDay = now - 1
    /\ ~srv.running => srv.timers = 0 /\ srv.due = 0

\* The pass at midnight failed and the next timer is pending all the same.
C26_Witness ==
    /\ srv.running
    /\ now > 1
    /\ srv.sweptDay = now
    /\ ~srv.passOk
    /\ srv.timers = 1
    /\ srv.due = 0

\* ------------------------- SpecRace: two requests in processUrl at once

\* Two requests for the same page and date are in flight on a started
\* server; their awaits interleave freely.
RaceRequests == {"r1", "r2"}
RaceDate == getTodayDate(1)
RacePreferences == {NoPreferences, MkPreferences(Num(100), Arr(<<1, 3>>))}

\* startServer() has run on an empty database file.
RaceInit ==
    /\ db = TRUE
    /\ store = {}
    /\ nextId = 1
    /\ now = 1
    /\ saved = [k \in Keys |-> {}]
    /\ lastCall = NoCall
    /\ req = [r \in RaceRequests |-> IdleRequest]
    /\ served = {}
    /\ cleanupDue = FALSE
    /\ ex = IdleExtraction
    /\ fl = IdleFilter
    /\ fn = IdleCall
    /\ srv = NoServer

RaceNext ==
    \E r \in RaceRequests :
        \/ \E u \in RequestUrls, p \in RacePreferences :
              Lookup(r, u, RaceDate, p) /\ UNCHANGED <<cacheOnlyVars, serviceVars>>
        \/ \E page \in Pages : Fetch(r, page) /\ UNCHANGED <<cacheOnlyVars, serviceVars>>
        \/ \E items \in ExtractionResults : Extract(r, items) /\ UNCHANGED <<cacheOnlyVars, serviceVars>>
        \/ /\ req[r].pc = "name"
           /\ \E name \in RestaurantNames(req[r].url) : NameAndPersist(r, name)
           /\ UNCHANGED <<cacheOnlyVars, serviceVars>>
        \/ Finish(r) /\ UNCHANGED <<cacheOnlyVars, serviceVars>>

SpecRace == RaceInit /\ [][RaceNext]_vars

\* --------------------------------------------------- SpecRace: the claims

\* The row a request's save inserted.
InsertedBy(r) == req[r].inserted

\* C27: when two requests for the same (url, date) both miss the cache, no
\* interleaving makes either fail, and once both have responded the table
\* holds exactly one row for (url, date): the row of the save that ran last,
\* with that save's data.
C27_LaterWriteWins ==
    /\ \A r \in RaceRequests : req[r].pc # "failed"
    /\ \A a \in RaceRequests, b \in RaceRequests :
          (/\ a # b
           /\ req[a].pc = "done" /\ Did(req[a], "write")
           /\ req[b].pc = "done" /\ Did(req[b], "write")
           /\ \E x \in InsertedBy(a) : \E y \in InsertedBy(b) : x.id < y.id) =>
              /\ req[a].response # {} /\ req[b].response # {}
              /\ SelectMenu(store, req[b].url, req[b].date) = InsertedBy(b)
              /\ Cardinality(InsertedBy(b)) = 1
              /\ \A row \in InsertedBy(b) : \A x \in req[b].persisted :
                    row.data = JSONStringify(x)

\* Both requests missed and wrote different data; the row is the later one's.
C27_Witness ==
    \E a \in RaceRequests, b \in RaceRequests :
        /\ req[a].pc = "done" /\ Did(req[a], "write")
        /\ req[b].pc = "done" /\ Did(req[b], "write")
        /\ req[a].persisted # req[b].persisted
        /\ \E x \in InsertedBy(a) : \E y \in InsertedBy(b) : x.id < y.id
        /\ store = InsertedBy(b)

\* --------------------------- SpecExtract: an extraction's items in processUrl

\* A request with a price ceiling and nothing else.
CeilingOnly == MkPreferences(Num(100), JsUndefined)

\* menu_items of the response processUrl gives for the extracted items on a
\* miss, and for the record saved by that miss on a later hit.
MissItems(items, preferences) ==
    RestaurantMenu(<<"hospoda">>, RaceDate, getCzechDayName(RaceDate), items, preferences).menu_items
HitItems(items, preferences) ==
    CacheHitResponse(JSONParse(JSONStringify(
        MenuToCache(<<"hospoda">>, RaceDate, getCzechDayName(RaceDate), items, preferences))),
        preferences).menu_items

\* C40: end to end, with a price ceiling set, an item whose price is null or
\* absent in the service's final answer is in the menu_items of neither the
\* cache-miss response nor the cache-hit response.
C40_NoPriceNoItem ==
    \A items \in ex.result : \A parsed \in ex.finalResponse :
        \A i \in DOMAIN items :
            Prop(parsed.v.items.v[i], "price") \in {JsNull, JsUndefined} =>
                /\ \A k \in DOMAIN MissItems(items, CeilingOnly) :
                      MissItems(items, CeilingOnly)[k] # items[i]
                /\ \A k \in DOMAIN HitItems(items, CeilingOnly) :
                      HitItems(items, CeilingOnly)[k] # items[i]

\* ------------------- SpecHeal: self-healing lookups and concurrent saves

\* Two requests for the same (url, date) on an open cache in which a row
\* can be corrupted: each lookup's SELECT and its DELETE of the corrupted
\* row are separate steps, and the other request's steps, its
\* saveMenuToCache included, can run between them.
HealNext ==
    \/ RaceNext
    \/ \E r \in RaceRequests : Heal(r) /\ UNCHANGED <<cacheOnlyVars, serviceVars>>
    \/ \E u \in RequestUrls :
          InsertCorrupted(u, RaceDate) /\ UNCHANGED <<lastCall, req, served, cleanupDue, serviceVars>>

SpecHeal == RaceInit /\ [][HealNext]_vars

\* --------------------------------------------------- SpecHeal: the claims

\* C37: self-healing never removes a valid entry: the DELETE of a lookup
\* that read a corrupted entry leaves every valid entry in the store, also
\* the one a concurrent saveMenuToCache(u, d, x) put in the corrupted entry's
\* place after the read, and a getCachedMenu(u, d) after it returns x.
C37_HealKeepsValidEntry ==
    [][\A r \in RaceRequests :
          (req[r].pc = "heal" /\ req'[r].pc # "heal") =>
              \A row \in store :
                  ~JSONParseThrows(row.data) =>
                      /\ row \in store'
                      /\ getCachedMenu(db', store', nextId', row.url, row.date).value
                            = {JSONParse(row.data)}]_vars

\* A lookup has read a corrupted row and not yet deleted it; a save of the
\* other request has replaced that row with a valid one under the same key.
C37_Witness ==
    \E r \in RaceRequests :
        /\ req[r].pc = "heal"
        /\ \A old \in req[r].healRow :
              /\ old \notin store
              /\ \E row \in store :
                    /\ row.url = old.url /\ row.date = old.date
                    /\ ~JSONParseThrows(row.data)
                    /\ \E other \in RaceRequests \ {r} : row \in req[other].inserted

\* ------------------------------------------ SpecAuth: requireApiKey

\* Header values and keys are sequences of characters.
BearerPrefix == <<"B", "e", "a", "r", "e", "r", " ">>

\* s.startsWith(p)
StartsWith(s, p) == Len(s) >= Len(p) /\ SubSeq(s, 1, Len(p)) = p

\* s.substring(n)
Substring(s, n) == SubSeq(s, n + 1, Len(s))

\* The keys a client sends and the server is configured with.
ApiKeys == {<<"k", "1">>, <<"k", "2">>}

\* req.headers['x-api-key']: no header, an empty one, a key, or something else.
XApiKeyHeaders == {{}, {<<>>}, {BearerPrefix \o <<"k", "1">>}} \cup {{k} : k \in ApiKeys}

\* req.headers['authorization']
AuthorizationHeaders ==
    {{}, {BearerPrefix}, {<<"k", "1">>}, {<<"b", "e", "a", "r", "e", "r", " ", "k", "1">>},
     {<<"B", "a", "s", "i", "c", " ", "k", "1">>}}
    \cup {{BearerPrefix \o k} : k \in ApiKeys}

\* process.env.API_KEY: unset, empty, or a key.
ConfiguredKeys == {{}, {<<>>}} \cup {{k} : k \in ApiKeys}

\* A string or undefined is falsy when it is undefined or empty.
NotSet(s) == s = {} \/ s = {<<>>}

\* The key requireApiKey takes from the request: x-api-key unless falsy,
\* then the rest of an authorization header that starts with "Bearer ".
ApiKeyOf(headers) ==
    IF ~NotSet(headers.xApiKey) THEN headers.xApiKey
    ELSE IF \E authHeader \in headers.authorization : StartsWith(authHeader, BearerPrefix)
         THEN {Substring(authHeader, Len(BearerPrefix)) : authHeader \in headers.authorization}
         ELSE headers.xApiKey

\* What the middleware did: the status it answered with (0: none), the
\* error code of the body, and whether next() was called.
AuthOutcome(status, error, next) == [status |-> status, error |-> error, next |-> next]

\* A variant that lets every request with a key through.
requireApiKeyUnchecked(headers, validApiKey) ==
    IF NotSet(ApiKeyOf(headers))
    THEN AuthOutcome(401, "restaurantMenuSummarizer/auth/apiKeyMissing", FALSE)
    ELSE AuthOutcome(0, "", TRUE)

requireApiKey(headers, validApiKey) ==
    LET apiKey == ApiKeyOf(headers) IN
    IF NotSet(apiKey) THEN AuthOutcome(401, "restaurantMenuSummarizer/auth/apiKeyMissing", FALSE)
    ELSE IF NotSet(validApiKey) THEN AuthOutcome(500, "INTERNAL_ERROR", FALSE)
    ELSE IF apiKey # validApiKey THEN AuthOutcome(401, "restaurantMenuSummarizer/auth/unauthorized", FALSE)
    ELSE AuthOutcome(0, "", TRUE)

\* A request reaches the middleware, which answers it or calls next().
RequireApiKey(headers, validApiKey) ==
    /\ fn.pc = "idle"
    /\ fn' = [IdleCall EXCEPT !.pc = "returned", !.op = "requireApiKey",
                              !.input = {[headers |-> headers, validApiKey |-> validApiKey]},
                              !.output = {requireApiKey(headers, validApiKey)}]
    /\ UNCHANGED <<db, store, nextId, now, saved, lastCall, orchestratorVars, ex, fl, srv>>

\* The request is over.
AuthSettled ==
    /\ fn.pc = "returned"
    /\ fn.op = "requireApiKey"
    /\ fn' = IdleCall
    /\ UNCHANGED <<db, store, nextId, now, saved, lastCall, orchestratorVars, ex, fl, srv>>

AuthNext ==
    \/ \E xApiKey \in XApiKeyHeaders, authorization \in AuthorizationHeaders, validApiKey \in ConfiguredKeys :
          RequireApiKey([xApiKey |-> xApiKey, authorization |-> authorization], validApiKey)
    \/ AuthSettled

SpecAuth == Init /\ [][AuthNext]_vars

\* --------------------------------------------------- SpecAuth: the claims

\* The token of an "Authorization: Bearer" header, if the request has one.
BearerToken(headers) ==
    {SubSeq(h, 8, Len(h)) : h \in {a \in headers.authorization : Len(a) >= 7 /\ SubSeq(a, 1, 7) = BearerPrefix}}

\* The key a request presents when an empty x-api-key header counts as none.
PresentedNonEmpty(headers) ==
    IF headers.xApiKey \notin {{}, {<<>>}} THEN headers.xApiKey ELSE BearerToken(headers) \ {<<>>}

\* The key a request presents when any x-api-key header counts, empty or not.
PresentedIfPresent(headers) ==
    IF headers.xApiKey # {} THEN headers.xApiKey ELSE BearerToken(headers)

\* C31 (amended): with a non-empty API_KEY configured, requireApiKey calls
\* next() only when the key presented (the x-api-key header if it is present
\* and not empty, otherwise the token of an "Authorization: Bearer" header)
\* equals API_KEY, and answers 401 without calling next() when no key is
\* presented or the key differs. With no API_KEY configured, next() is never
\* called: a request without a key gets 401, a request with a key gets 500.
C31_RequireApiKey ==
    (fn.pc = "returned" /\ fn.op = "requireApiKey") =>
        \A call \in fn.input, out \in fn.output :
            LET key == PresentedNonEmpty(call.headers)
                configured == call.validApiKey \notin {{}, {<<>>}}
            IN  /\ out.next => (configured /\ key # {} /\ key = call.validApiKey /\ out.status = 0)
                /\ key = {} => (out.status = 401 /\ ~out.next)
                /\ (key # {} /\ configured /\ key # call.validApiKey) => (out.status = 401 /\ ~out.next)
                /\ (key # {} /\ ~configured) => (out.status = 500 /\ ~out.next)

\* A request whose x-api-key is wrong and whose Bearer token is right was
\* answered 401, and one with the right Bearer token alone was let through.
C31_Witness ==
    /\ fn.pc = "returned"
    /\ fn.op = "requireApiKey"
    /\ \E call \in fn.input, out \in fn.output :
          /\ call.validApiKey = {<<"k", "1">>}
          /\ call.headers.xApiKey = {<<"k", "2">>}
          /\ call.headers.authorization = {BearerPrefix \o <<"k", "1">>}
          /\ out.status = 401
          /\ ~out.next

\* C31 as stated: next() is called only when the x-api-key header if present,
\* otherwise the Bearer token, equals API_KEY, and every request with no key
\* or another key is answered 401 without next().
C31_RequireApiKeyAsStated ==
    (fn.pc = "returned" /\ fn.op = "requireApiKey") =>
        \A call \in fn.input, out \in fn.output :
            LET key == PresentedIfPresent(call.headers) IN
            /\ out.next => (key # {} /\ key = call.validApiKey)
            /\ (key = {} \/ key # call.validApiKey) => (out.status = 401 /\ ~out.next)

\* ------------------------------------- SpecExtract: the tool calls of a turn

\* The positions of the service's turns in the conversation.
AssistantTurns == {i \in DOMAIN ex.messages : ex.messages[i].role = "assistant"}

\* The service is called again after the turn at position i: a later turn is
\* in the conversation, or the loop goes on.
NextCallMade(i) == (\E j \in AssistantTurns : j > i) \/ (ex.pc = "loop" /\ ex.maxIterations > 0)

\* The result messages between the turn at position i and the next turn.
ResultsOf(i) ==
    {k \in DOMAIN ex.messages :
        /\ k > i
        /\ ex.messages[k].role = "tool"
        /\ \A j \in AssistantTurns : j > i => k < j}

\* C33: when the service is called again after a turn that carried tool
\* calls, every tool call of that turn has exactly one result message with
\* its id in the conversation, after the turn and before the next one.
C33_EveryInvocationAnswered ==
    \A i \in AssistantTurns :
        NextCallMade(i) =>
            \A n \in DOMAIN ex.messages[i].tool_calls :
                Cardinality({k \in ResultsOf(i) :
                                ex.messages[k].tool_call_id = ex.messages[i].tool_calls[n].id}) = 1

\* ------------------------------------------------------- SpecRetry: retry

\* const { retries = 3, delay = 300, factor = 2 } = options
DefaultRetries == 3
DefaultDelay == 300
DefaultFactor == 2

RECURSIVE Pow(_, _)
\* Math.pow(b, n) for a natural n
Pow(b, n) == IF n = 0 THEN 1 ELSE b * Pow(b, n - 1)

\* What fn can reject with. axios: axios.isAxiosError(error); response: the
\* status of error.response, none without a response; code: error.code;
\* object: error is a non-null object; status: its own status property.
Thrown(axios, response, code, object, status) ==
    [axios |-> axios, response |-> response, code |-> code, object |-> object, status |-> status]

RetryErrors ==
    {Thrown(TRUE, {}, "ECONNREFUSED", TRUE, {}),
     Thrown(TRUE, {}, "ETIMEDOUT", TRUE, {}),
     Thrown(TRUE, {503}, "ERR_BAD_RESPONSE", TRUE, {503}),
     Thrown(TRUE, {404}, "ERR_BAD_REQUEST", TRUE, {404}),
     Thrown(TRUE, {408}, "ECONNABORTED", TRUE, {408}),
     Thrown(FALSE, {}, "", TRUE, {500}),
     Thrown(FALSE, {}, "", TRUE, {429}),
     Thrown(FALSE, {}, "", TRUE, {}),
     Thrown(FALSE, {}, "", FALSE, {})}

shouldRetryAlways(error) == TRUE

shouldRetry(error) ==
    \/ /\ error.axios
       /\ \/ error.response = {}
          \/ \E status \in error.response : status >= 500
          \/ error.code \in {"ECONNABORTED", "ETIMEDOUT", "ENOTFOUND"}
    \/ /\ error.object
       /\ \E status \in error.status : status # 0 /\ status >= 500

KeepFirstError(lastError, error) == IF lastError = {} THEN {error} ELSE lastError

\* lastError = error
LastErrorAfter(lastError, error) == {error}

\* fn() settled: it resolved with a value or rejected with an error.
Resolves(value) == [kind |-> "resolves", value |-> value, error |-> Thrown(FALSE, {}, "", FALSE, {})]
RejectsWith(error) == [kind |-> "rejects", value |-> "", error |-> error]

RetryOutcomes == {Resolves("page")} \cup {RejectsWith(error) : error \in RetryErrors}

\* retry(fn, options) with the loop at `attempt`: calls counts the calls of
\* fn, history lists how they settled, waits the backoff delays slept.
RetryCall(retries) ==
    [pc |-> "attempt", op |-> "retry", url |-> NoUrl,
     input |-> {[retries |-> retries, delay |-> DefaultDelay, factor |-> DefaultFactor]},
     output |-> {}, error |-> {}, retries |-> retries, attempt |-> 0, calls |-> 0,
     history |-> <<>>, waits |-> <<>>, lastError |-> {}]

\* throw lastError, after the loop.
ThrowLastError(call) == [call EXCEPT !.pc = "threw", !.error = call.lastError]

\* The loop's test, attempt <= retries, with the body's call of fn ahead.
LoopTest(call) == IF call.attempt <= call.retries THEN call ELSE ThrowLastError(call)

\* One pass of the loop body once fn() has settled.
AfterAttempt(call, outcome) ==
    LET called == [call EXCEPT !.calls = @ + 1, !.history = Append(@, outcome)] IN
    IF outcome.kind = "resolves"
    THEN [called EXCEPT !.pc = "returned", !.output = {outcome.value}]
    ELSE LET caught == [called EXCEPT !.lastError = LastErrorAfter(@, outcome.error)] IN
         IF caught.attempt = caught.retries THEN ThrowLastError(caught)
         ELSE IF ~shouldRetry(outcome.error)
         THEN [caught EXCEPT !.pc = "threw", !.error = {outcome.error}]
         ELSE [caught EXCEPT !.pc = "backoff",
                             !.waits = Append(@, DefaultDelay * Pow(DefaultFactor, caught.attempt))]

\* retry(fn, { retries }) is called, retries omitted included.
StartRetry(retries) ==
    /\ fn.pc = "idle"
    /\ fn' = LoopTest(RetryCall(retries))
    /\ UNCHANGED <<db, store, nextId, now, saved, lastCall, orchestratorVars, ex, fl, srv>>

\* await fn() settles and the rest of the loop body runs.
Attempt(outcome) ==
    /\ fn.pc = "attempt"
    /\ fn.op = "retry"
    /\ fn' = AfterAttempt(fn, outcome)
    /\ UNCHANGED <<db, store, nextId, now, saved, lastCall, orchestratorVars, ex, fl, srv>>

\* The backoff timer fires: attempt++ and the loop's test.
BackoffElapsed ==
    /\ fn.pc = "backoff"
    /\ fn' = LoopTest([fn EXCEPT !.pc = "attempt", !.attempt = @ + 1])
    /\ UNCHANGED <<db, store, nextId, now, saved, lastCall, orchestratorVars, ex, fl, srv>>

\* The caller has the result or the error.
RetrySettled ==
    /\ fn.pc \in {"returned", "threw"}
    /\ fn.op = "retry"
    /\ fn' = IdleCall
    /\ UNCHANGED <<db, store, nextId, now, saved, lastCall, orchestratorVars, ex, fl, srv>>

RetryNext ==
    \/ \E retries \in (0..MaxRetries) \cup {DefaultRetries} : StartRetry(retries)
    \/ \E outcome \in RetryOutcomes : Attempt(outcome)
    \/ BackoffElapsed
    \/ RetrySettled

SpecRetry == Init /\ [][RetryNext]_vars

\* --------------------------------------------------- SpecRetry: the claims

\* A retry call is in progress or has just settled.
InRetry == fn.op = "retry"

\* C35: retry(fn, {retries: n}) calls fn at least once and at most n + 1
\* times; it returns the result of the first call that succeeds and calls fn
\* no more after it; and when n + 1 calls have failed it throws the error of
\* the last of them.
C35_RetryBounds ==
    InRetry =>
        LET n == fn.retries
            last == fn.history[Len(fn.history)]
        IN  /\ fn.calls = Len(fn.history)
            /\ fn.calls <= n + 1
            /\ fn.pc \in {"returned", "threw"} => fn.calls >= 1
            /\ \A i \in 1..(Len(fn.history) - 1) : fn.history[i].kind = "rejects"
            /\ (fn.history # <<>> /\ last.kind = "resolves") =>
                  (fn.pc = "returned" /\ fn.output = {last.value})
            /\ fn.pc = "returned" => (fn.history # <<>> /\ last.kind = "resolves")
            /\ (fn.calls = n + 1 /\ last.kind = "rejects") =>
                  (fn.pc = "threw" /\ fn.error = {last.error})

\* All n + 1 calls failed with different retryable errors, n > 0.
C35_Witness ==
    /\ InRetry
    /\ fn.pc = "threw"
    /\ fn.retries = 2
    /\ fn.calls = 3
    /\ \A i \in 1..3 : fn.history[i].kind = "rejects" /\ shouldRetry(fn.history[i].error)
    /\ fn.history[1].error # fn.history[3].error

\* A network error: an axios error without a response or with one of the
\* network error codes. A 5xx error: a response or a status of 500 to 599.
NetworkError(error) ==
    error.axios /\ (error.response = {} \/ error.code \in {"ECONNABORTED", "ETIMEDOUT", "ENOTFOUND"})
ServerError5xx(error) ==
    \/ error.axios /\ \E status \in error.response : status \in 500..599
    \/ error.object /\ \E status \in error.status : status \in 500..599

\* C36: retry calls fn again only after a network error or a 5xx error; any
\* other error is rethrown at once and unchanged: no further call of fn and
\* no backoff wait follow it, however many retries remain.
C36_OnlyRetryable ==
    InRetry =>
        LET last == fn.history[Len(fn.history)] IN
        /\ \A i \in 1..(Len(fn.history) - 1) :
              /\ fn.history[i].kind = "rejects"
              /\ NetworkError(fn.history[i].error) \/ ServerError5xx(fn.history[i].error)
        /\ Len(fn.waits) <= Len(fn.history)
        /\ (/\ fn.history # <<>>
            /\ last.kind = "rejects"
            /\ ~NetworkError(last.error)
            /\ ~ServerError5xx(last.error)) =>
              /\ fn.pc = "threw"
              /\ fn.error = {last.error}
              /\ Len(fn.waits) = Len(fn.history) - 1

\* After one retried failure a 429 was rethrown with two retries left.
C36_Witness ==
    /\ InRetry
    /\ fn.pc = "threw"
    /\ fn.retries = 3
    /\ fn.calls = 2
    /\ fn.waits = <<300>>
    /\ fn.error = {Thrown(FALSE, {}, "", TRUE, {429})}

====
